---- MODULE Spec2Model ----
(***************************************************************************)
(* Registration / OTP verification flow of the users app                   *)
(* (backend/api/apps/users/views/otp.py, views/registration.py, urls.py)   *)
(* and the Gmail OAuth2 mail backend with its credential files             *)
(* (backends/oauth2.py, views/auth.py).                                    *)
(*                                                                         *)
(* State: the durable user table, the server-side session dictionaries,    *)
(* a wall clock, the DEBUG setting and the last HTTP response; the pickle, *)
(* JSON and backup credential files, the mail backend instance, the count  *)
(* of access tokens issued and the outcome of the last mail operation.     *)
(* One action per request handler; each action is the whole handler.       *)
(* The 'timestamp' item of the registration data (otp.py:68) is written    *)
(* and never read by any handler; it is not carried in the model.          *)
(***************************************************************************)
EXTENDS Integers, FiniteSets, Sequences, TLC

(* ------------------------------ bounds -------------------------------- *)

\* the clock stops advancing at this minute
MaxNow == 15

\* the token endpoint stops issuing access tokens after this many
MaxIssued == 2

\* the longest list of messages handed to one send_messages call
MaxMessages == 3

(* ------------------------- program constants -------------------------- *)

\* expiry = datetime.now() + timedelta(minutes=10)
OTP_EXPIRY_MINUTES == 10

\* TIME_ZONE = 'UTC': offset, in minutes, between naive local time and epoch time
UTC_OFFSET == 0

HTTP_200_OK == 200
HTTP_201_CREATED == 201
HTTP_400_BAD_REQUEST == 400
HTTP_500_INTERNAL_SERVER_ERROR == 500

(* ------------------------------ inputs -------------------------------- *)

Sessions == {"s1"}

\* "" stands for a missing / empty request field
Empty == ""

Usernames == {"alice", "bob"}

\* one address written in normal form and one written with an upper-case
\* domain part
Emails == {"a@x.com", "b@X.com"}

\* "Abc12345" passes the password policy, "12345678" is entirely numeric
Passwords == {"Abc12345", "12345678"}

FirstNames == {"Al"}
LastNames == {"Ice"}

\* the 6-digit strings the model lets random.choices produce
Codes == {"123456", "654321"}

\* what a client may put in the otp field
SuppliedOtps == Codes \cup {Empty}

(* ----------------------------- helpers -------------------------------- *)

\* dict assignment  d[k] = v
Put(d, k, v) == [x \in (DOMAIN d) \cup {k} |-> IF x = k THEN v ELSE d[x]]

\* dict deletion  del d[k]
Del(d, k) == [x \in (DOMAIN d) \ {k} |-> d[x]]

EmptyDict == [x \in {} |-> {}]

\* session keys  f'otp_{email}'  and  f'registration_data_{email}'
otp_key(email) == <<"otp_", email>>
registration_data_key(email) == <<"registration_data_", email>>

\* naive local datetime -> POSIX timestamp, and back
timestamp(d) == d - UTC_OFFSET
fromtimestamp(t) == t + UTC_OFFSET

\* UserManager.normalize_email: the domain part is lower-cased
normalize_email(email) == IF email = "b@X.com" THEN "b@x.com" ELSE email

\* make_password: the stored value is a hash, never the plaintext
make_password(p) == <<"pbkdf2", p>>

\* generate_otp(): any 6-digit string may come out
generate_otp == Codes

\* send_mail(...): TRUE when the mail collaborator delivered, FALSE when it raised
send_mail == BOOLEAN

\* validate_password with the configured AUTH_PASSWORD_VALIDATORS
password_policy_ok(p) == p = "Abc12345"

(* ------------------------------ state --------------------------------- *)

VARIABLES
    users,      \* the user table: a set of user records
    session,    \* session[s]: the dictionary of client session s
    now,        \* datetime.now(), in minutes
    DEBUG,      \* settings.DEBUG
    response,   \* the last request handled, the response it got, whether
                \* its mail went out and what its code entry replaced
    pickle_file,    \* credentials/gmail_token.pickle
    json_file,      \* credentials/gmail_token.json  (settings.GMAIL_TOKEN_PATH)
    backup_file,    \* credentials/gmail_token.pickle.backup
    backend,        \* the OAuth2EmailBackend instance of the current connection
    issued,         \* how many access tokens the provider has issued
    outcome,        \* the last mail-side operation and how it ended
    workers         \* workers[w]: where worker process w is in its load()

flow_vars == <<users, session, now, DEBUG, response>>

mail_vars == <<pickle_file, json_file, backup_file, backend, issued, outcome, workers>>

vars == <<users, session, now, DEBUG, response,
          pickle_file, json_file, backup_file, backend, issued, outcome, workers>>

NoResponse ==
    [op |-> "none", sid |-> Empty, status |-> 0,
     message |-> "none", errors |-> {}, tokens |-> {}, debug_otp |-> {},
     mail |-> "none", replaced |-> "none"]

(* ------------------------- user persistence --------------------------- *)

\* a user table whose only UNIQUE constraint is on username
IntegrityError_username_only(username, email) ==
    \E u \in users : u.username = username

\* the UNIQUE constraints of the user table (username, email)
IntegrityError(username, email) ==
    \E u \in users : u.username = username \/ u.email = normalize_email(email)

\* the row User.objects.create_user inserts
create_user(username, email, password, first_name, last_name, is_active, is_verified) ==
    [username |-> username,
     email |-> normalize_email(email),
     password |-> make_password(password),
     first_name |-> first_name,
     last_name |-> last_name,
     is_active |-> is_active,
     is_verified |-> is_verified]

\* RefreshToken.for_user(user): an access/refresh pair bound to the user
RefreshToken_for_user(user) ==
    {<<"access", user.email>>, <<"refresh", user.email>>}

(* --------------------------- serializer ------------------------------- *)

\* a serializer whose validate() does not compare the two passwords
serializer_errors_no_mismatch(username, email, password, confirm_password) ==
    {<<"username", "unique">> : u \in {v \in users : v.username = username}}
    \cup {<<"email", "unique">> : u \in {v \in users : v.email = email}}
    \cup {<<"password", "policy">> : x \in {1} \cap (IF password_policy_ok(password) THEN {} ELSE {1})}

\* UserRegistrationSerializer.is_valid: the field errors (required, unique,
\* validate_password); validate() compares the two passwords only when every
\* field passed
serializer_errors(username, email, password, confirm_password) ==
    LET field_errors ==
            {<<"username", "blank">> : x \in {1} \cap (IF username = Empty THEN {1} ELSE {})}
            \cup {<<"username", "unique">> : u \in {v \in users : v.username = username}}
            \cup {<<"email", "blank">> : x \in {1} \cap (IF email = Empty THEN {1} ELSE {})}
            \cup {<<"email", "unique">> : u \in {v \in users : v.email = email}}
            \cup {<<"password", "policy">> : x \in {1} \cap (IF password_policy_ok(password) THEN {} ELSE {1})}
    IN  IF field_errors # {} THEN field_errors
        ELSE IF password # confirm_password THEN {<<"password", "mismatch">>}
        ELSE {}

(* ----------------------- steps of the handlers ------------------------ *)

\* a begin that keeps the registration data an earlier begin left for the email
register_store_keeps_data(d, email, registration_data, otp) ==
    Put(Put(d, registration_data_key(email),
            IF registration_data_key(email) \in DOMAIN d
            THEN d[registration_data_key(email)]
            ELSE registration_data),
        otp_key(email),
        [code |-> otp, expiry |-> timestamp(now + OTP_EXPIRY_MINUTES)])

\* RegisterView.post: request.session[registration_data_key] = {...};
\* request.session[otp_key] = {'code': otp, 'expiry': (now + 10 min).timestamp()}
register_store(d, email, registration_data, otp) ==
    Put(Put(d, registration_data_key(email), registration_data),
        otp_key(email),
        [code |-> otp, expiry |-> timestamp(now + OTP_EXPIRY_MINUTES)])

\* a begin that already inserts the (unverified) user row
register_users_creates_unverified(us, registration_data) ==
    us \cup {create_user(registration_data.username, registration_data.email,
                         registration_data.password, registration_data.first_name,
                         registration_data.last_name, TRUE, FALSE)}

\* RegisterView.post: the user table after a begin that stored its data (the
\* handler only reads User.objects, through the two filter(...).exists() calls)
register_users(us, registration_data) == us

\* an except branch that reports the mail failure as an error in every mode
register_mail_failed_response_always_500(req, otp) ==
    [req EXCEPT !.status = HTTP_500_INTERNAL_SERVER_ERROR,
                !.message = "Failed to send verification email",
                !.mail = "failed"]

\* RegisterView.post: the except branch around send_mail
register_mail_failed_response(req, otp) ==
    IF DEBUG
    THEN [req EXCEPT !.status = HTTP_200_OK,
                     !.message = "Registration data received, but email sending failed",
                     !.debug_otp = {otp},
                     !.mail = "failed"]
    ELSE [req EXCEPT !.status = HTTP_500_INTERNAL_SERVER_ERROR,
                     !.message = "Failed to send verification email",
                     !.mail = "failed"]

\* an expiry test that already rejects the code at now = expiry
otp_expired_at_boundary(stored_otp_data) == now >= fromtimestamp(stored_otp_data.expiry)

\* VerifyOTPView.post: datetime.now() > datetime.fromtimestamp(stored_otp_data['expiry'])
otp_expired(stored_otp_data) == now > fromtimestamp(stored_otp_data.expiry)

\* an expired branch that forgets the pending registration
verify_expired_cleanup_code_only(d, email) == Del(d, otp_key(email))

\* VerifyOTPView.post: the deletions of the expired branch
verify_expired_cleanup(d, email) ==
    Del(Del(d, otp_key(email)), registration_data_key(email))

\* VerifyOTPView.post: otp != stored_otp
otp_mismatch(otp, stored_otp_data) == otp # stored_otp_data.code

\* a mismatch that locks the registration out by dropping its entries
verify_mismatch_session_lockout(d, email) ==
    Del(Del(d, otp_key(email)), registration_data_key(email))

\* VerifyOTPView.post: what the session holds after a mismatch (nothing is touched)
verify_mismatch_session(d, email) == d

\* a create_user call that forgets is_verified=True
verify_create_user_unverified(registration_data) ==
    create_user(registration_data.username, registration_data.email,
                registration_data.password, registration_data.first_name,
                registration_data.last_name, TRUE, FALSE)

\* VerifyOTPView.post: User.objects.create_user(..., is_active=True, is_verified=True)
verify_create_user(registration_data) ==
    create_user(registration_data.username, registration_data.email,
                registration_data.password, registration_data.first_name,
                registration_data.last_name, TRUE, TRUE)

\* a success branch that leaves the consumed code in the session
verify_success_cleanup_keeps_code(d, email) == Del(d, registration_data_key(email))

\* VerifyOTPView.post: del request.session[otp_key]; del request.session[registration_data_key]
verify_success_cleanup(d, email) ==
    Del(Del(d, otp_key(email)), registration_data_key(email))

\* a resend that skips the look-up of the registration data
resend_no_pending_never(d, email) == FALSE

\* a resend that also turns away a registration whose code has expired
resend_no_pending_or_expired(d, email) ==
    \/ registration_data_key(email) \notin DOMAIN d
    \/ otp_key(email) \in DOMAIN d /\ otp_expired(d[otp_key(email)])

\* ResendOTPView.post: registration_data = request.session.get(key);
\* if not registration_data  (a stored registration is never an empty dict)
resend_no_pending(d, email) == registration_data_key(email) \notin DOMAIN d

\* a resend that keeps an entry that is already there instead of replacing it
resend_store_keeps_old(d, email, otp) ==
    IF otp_key(email) \in DOMAIN d
    THEN d
    ELSE Put(d, otp_key(email),
             [code |-> otp, expiry |-> timestamp(now + OTP_EXPIRY_MINUTES)])

\* a resend that writes the new code under the expiry of the old one
resend_store_keeps_expiry(d, email, otp) ==
    Put(d, otp_key(email),
        [code |-> otp,
         expiry |-> IF otp_key(email) \in DOMAIN d
                    THEN d[otp_key(email)].expiry
                    ELSE timestamp(now + OTP_EXPIRY_MINUTES)])

\* ResendOTPView.post: request.session[otp_key] = {'code': otp, 'expiry': ...}
resend_store(d, email, otp) ==
    Put(d, otp_key(email),
        [code |-> otp, expiry |-> timestamp(now + OTP_EXPIRY_MINUTES)])

\* an except branch that reports success in every mode
resend_mail_failed_response_always_200(req, otp) ==
    [req EXCEPT !.status = HTTP_200_OK,
                !.message = "Failed to send email, but OTP generated",
                !.debug_otp = {otp},
                !.mail = "failed"]

\* ResendOTPView.post: the except branch
resend_mail_failed_response(req, otp) ==
    IF DEBUG
    THEN [req EXCEPT !.status = HTTP_200_OK,
                     !.message = "Failed to send email, but OTP generated",
                     !.debug_otp = {otp},
                     !.mail = "failed"]
    ELSE [req EXCEPT !.status = HTTP_500_INTERNAL_SERVER_ERROR,
                     !.message = "Failed to send verification code",
                     !.mail = "failed"]

\* a cancel that removes the code and leaves the registration data
cancel_cleanup_code_only(d, email) == Del(d, otp_key(email))

\* a cancel that removes the registration data and leaves the code
cancel_cleanup_data_only(d, email) == Del(d, registration_data_key(email))

\* CancelRegistrationView.post: the two guarded deletions
cancel_cleanup(d, email) ==
    Del(Del(d, otp_key(email)), registration_data_key(email))

(* ----------------------------- handlers ------------------------------- *)

\* request.session[otp_key] = {...}: what the assignment finds under the key
\* (nothing, a code that can still be used, or a code whose expiry has passed)
overwritten(d, email) ==
    IF otp_key(email) \notin DOMAIN d THEN "none"
    ELSE IF otp_expired(d[otp_key(email)]) THEN "expired"
    ELSE "live"

\* POST register/  --  RegisterView.post
RegisterView_post(s, username, email, password, confirm_password, first_name, last_name) ==
    LET req == [NoResponse EXCEPT !.op = "register", !.sid = s]
        stored == [req EXCEPT !.replaced = overwritten(session[s], email)]
        errors == serializer_errors(username, email, password, confirm_password)
        registration_data ==
            [username |-> username, email |-> email, password |-> password,
             first_name |-> first_name, last_name |-> last_name]
    IN
    /\ UNCHANGED <<now, DEBUG>>
    /\ IF username # Empty /\ (\E u \in users : u.username = username)
       THEN /\ response' = [req EXCEPT !.status = HTTP_400_BAD_REQUEST,
                                       !.message = "validation",
                                       !.errors = {<<"username", "exists">>}]
            /\ UNCHANGED <<users, session>>
       ELSE IF email # Empty /\ (\E u \in users : u.email = email)
       THEN /\ response' = [req EXCEPT !.status = HTTP_400_BAD_REQUEST,
                                       !.message = "validation",
                                       !.errors = {<<"email", "exists">>}]
            /\ UNCHANGED <<users, session>>
       ELSE IF errors # {}
       THEN /\ response' = [req EXCEPT !.status = HTTP_400_BAD_REQUEST,
                                       !.message = "validation",
                                       !.errors = errors]
            /\ UNCHANGED <<users, session>>
       ELSE \E otp \in generate_otp, mail_ok \in send_mail :
            /\ users' = register_users(users, registration_data)
            /\ session' = [session EXCEPT ![s] =
                              register_store(session[s], email, registration_data, otp)]
            /\ IF mail_ok
               THEN response' = [stored EXCEPT !.status = HTTP_200_OK,
                                               !.message = "Registration data received! Please verify",
                                               !.mail = "sent"]
               ELSE response' = register_mail_failed_response(stored, otp)

\* POST verify-otp/  --  VerifyOTPView.post
VerifyOTPView_post(s, email, otp) ==
    LET req == [NoResponse EXCEPT !.op = "verify", !.sid = s]
        d == session[s]
        stored_otp_data == d[otp_key(email)]
        registration_data == d[registration_data_key(email)]
        user == verify_create_user(registration_data)
    IN
    /\ UNCHANGED <<now, DEBUG>>
    /\ IF email = Empty \/ otp = Empty
       THEN /\ response' = [req EXCEPT !.status = HTTP_400_BAD_REQUEST,
                                       !.message = "Email and OTP are required"]
            /\ UNCHANGED <<users, session>>
       ELSE IF otp_key(email) \notin DOMAIN d
       THEN /\ response' = [req EXCEPT !.status = HTTP_400_BAD_REQUEST,
                                       !.message = "expired or is invalid. Please register again"]
            /\ UNCHANGED <<users, session>>
       ELSE IF otp_expired(stored_otp_data)
       THEN /\ session' = [session EXCEPT ![s] = verify_expired_cleanup(d, email)]
            /\ response' = [req EXCEPT !.status = HTTP_400_BAD_REQUEST,
                                       !.message = "Your verification code has expired"]
            /\ UNCHANGED users
       ELSE IF otp_mismatch(otp, stored_otp_data)
       THEN /\ session' = [session EXCEPT ![s] = verify_mismatch_session(d, email)]
            /\ response' = [req EXCEPT !.status = HTTP_400_BAD_REQUEST,
                                       !.message = "Invalid verification code"]
            /\ UNCHANGED users
       ELSE IF registration_data_key(email) \notin DOMAIN d
       THEN /\ response' = [req EXCEPT !.status = HTTP_400_BAD_REQUEST,
                                       !.message = "Registration data not found"]
            /\ UNCHANGED <<users, session>>
       ELSE IF IntegrityError(registration_data.username, registration_data.email)
       THEN /\ response' = [req EXCEPT !.status = HTTP_500_INTERNAL_SERVER_ERROR,
                                       !.message = "An error occurred during account creation"]
            /\ UNCHANGED <<users, session>>
       ELSE /\ users' = users \cup {user}
            /\ session' = [session EXCEPT ![s] = verify_success_cleanup(d, email)]
            /\ response' = [req EXCEPT !.status = HTTP_201_CREATED,
                                       !.message = "Email verified and account created successfully",
                                       !.tokens = RefreshToken_for_user(user)]

\* POST resend-otp/  --  ResendOTPView.post
ResendOTPView_post(s, email) ==
    LET req == [NoResponse EXCEPT !.op = "resend", !.sid = s]
        d == session[s]
        stored == [req EXCEPT !.replaced = overwritten(d, email)]
    IN
    /\ UNCHANGED <<users, now, DEBUG>>
    /\ IF email = Empty
       THEN /\ response' = [req EXCEPT !.status = HTTP_400_BAD_REQUEST,
                                       !.message = "Email is required"]
            /\ UNCHANGED session
       ELSE IF resend_no_pending(d, email)
       THEN /\ response' = [req EXCEPT !.status = HTTP_400_BAD_REQUEST,
                                       !.message = "No pending registration found"]
            /\ UNCHANGED session
       ELSE \E otp \in generate_otp, mail_ok \in send_mail :
            /\ session' = [session EXCEPT ![s] = resend_store(d, email, otp)]
            /\ IF mail_ok
               THEN response' = [stored EXCEPT !.status = HTTP_200_OK,
                                               !.message = "A new verification code has been sent",
                                               !.mail = "sent"]
               ELSE response' = resend_mail_failed_response(stored, otp)

\* POST cancel-registration/  --  CancelRegistrationView.post
CancelRegistrationView_post(s, email) ==
    LET req == [NoResponse EXCEPT !.op = "cancel", !.sid = s]
        d == session[s]
    IN
    /\ UNCHANGED <<users, now, DEBUG>>
    /\ IF email = Empty
       THEN /\ response' = [req EXCEPT !.status = HTTP_400_BAD_REQUEST,
                                       !.message = "Email is required"]
            /\ UNCHANGED session
       ELSE /\ session' = [session EXCEPT ![s] = cancel_cleanup(d, email)]
            /\ response' = [req EXCEPT !.status = HTTP_200_OK,
                                       !.message = "Registration cancelled successfully"]

\* POST /  (the router's root route; get_permissions gives AllowAny for
\* 'create')  --  UserViewSet.create with UserRegistrationSerializer.create
UserViewSet_create(username, email, password, confirm_password, first_name, last_name) ==
    LET req == [NoResponse EXCEPT !.op = "create"]
        errors == serializer_errors(username, email, password, confirm_password)
        user == create_user(username, email, password, first_name, last_name, TRUE, FALSE)
    IN
    /\ UNCHANGED <<session, now, DEBUG>>
    /\ IF errors # {}
       THEN /\ response' = [req EXCEPT !.status = HTTP_400_BAD_REQUEST,
                                       !.message = "validation",
                                       !.errors = errors]
            /\ UNCHANGED users
       ELSE IF IntegrityError(username, email)
       THEN /\ response' = [req EXCEPT !.status = HTTP_500_INTERNAL_SERVER_ERROR,
                                       !.message = "IntegrityError"]
            /\ UNCHANGED users
       ELSE /\ users' = users \cup {user}
            /\ response' = [req EXCEPT !.status = HTTP_201_CREATED,
                                       !.message = "created"]

\* the wall clock advances by half a validity window
Tick ==
    /\ now + (OTP_EXPIRY_MINUTES \div 2) <= MaxNow
    /\ now' = now + (OTP_EXPIRY_MINUTES \div 2)
    /\ UNCHANGED <<users, session, DEBUG, response>>
    /\ UNCHANGED mail_vars

(* ====================================================================== *)
(* Outbound mail: the OAuth2 credential of the Gmail backend              *)
(* (backend/api/apps/users/backends/oauth2.py, views/auth.py)             *)
(*                                                                        *)
(* A credential is a record [token, refresh_token, expired]; expired is   *)
(* the value its .expired property has now.  The legacy (pickle) file     *)
(* holds the whole credential object, the JSON file holds what            *)
(* _save_credentials puts in creds_data: there is no expiry in it.        *)
(* client_id, client_secret, token_uri and scopes come from the settings  *)
(* and are the same in every credential; they are not carried.            *)
(* ====================================================================== *)

\* os.path.exists(path) is false
Absent == [file |-> "absent"]

\* the file exists and pickle.load / json.load raises on it
Corrupt == [file |-> "corrupt"]

\* self.credentials = None; no backend instance
None == [none |-> TRUE]

\* access tokens found in the files at start, and the ones the token
\* endpoint hands out: the n-th token issued
OldTokens == {"token_a", "token_b"}
IssuedTokens == <<"token_1", "token_2", "token_3", "token_4", "token_5">>
NewToken(n) == IssuedTokens[n]

\* refresh tokens: "" stands for None
RefreshTokens == {Empty, "refresh_r"}

\* hasattr(settings, 'GMAIL_TOKEN_PATH')
HAS_GMAIL_TOKEN_PATH == TRUE

\* settings.ENABLE_CREDENTIALS_MIGRATION
ENABLE_CREDENTIALS_MIGRATION == TRUE

\* the credential objects a pickle file can hold at start
StoredCredentials ==
    [token : OldTokens, refresh_token : RefreshTokens, expired : BOOLEAN]

\* what an earlier migration left in the backup file
OlderBackup == [token |-> "token_b", refresh_token |-> "refresh_r", expired |-> TRUE]

\* a validity test that does not look at the expiry
valid_ignores_expiry(c) == c.token # Empty

\* google.oauth2.credentials.Credentials.valid
valid(c) == c.token # Empty /\ ~c.expired

\* creds_data of _save_credentials: token and refresh_token (and the client
\* fields); the expiry of the credential is not written
creds_data(c) == [token |-> c.token, refresh_token |-> c.refresh_token]

\* Credentials.from_authorized_user_info(creds_data): the data carry no
\* expiry, so whether the object counts as expired is the library's choice
\* (stale: it takes a credential without expiry for expired)
from_authorized_user_info(data, stale) ==
    [token |-> data.token, refresh_token |-> data.refresh_token, expired |-> stale]

\* a refresh that marks the credential fresh and keeps its access token
refresh_keeps_token(c, n) == [c EXCEPT !.expired = FALSE]

\* credentials.refresh(Request()) that succeeded: the n-th token of the endpoint
refresh(c, n) == [c EXCEPT !.token = NewToken(n), !.expired = FALSE]

\* the outcomes of the file operations and of the token endpoint during one
\* construction of the backend
LoadOutcomes ==
    [backup_ok : BOOLEAN,     \* shutil.copy2(old_token_path, backup_path)
     pickle_ok : BOOLEAN,     \* the writes of the pickle file during this call
     json_ok : BOOLEAN,       \* the writes of the JSON file during this call
     json_stale : BOOLEAN,    \* from_authorized_user_info: expired or not
     refresh_ok : BOOLEAN]    \* credentials.refresh(Request())

\* a _save_credentials that writes the legacy form only
_save_credentials_pickle_only(c, files, pickle_ok, json_ok) ==
    IF ~pickle_ok
    THEN [files EXCEPT !.pickle = Corrupt, !.raised = TRUE]
    ELSE [files EXCEPT !.pickle = c, !.raised = FALSE]

\* _save_credentials: open(pickle_path, 'wb') truncates the file and
\* pickle.dump fills it (a failure leaves it unreadable and raises); the JSON
\* write is inside try/except, a failure is logged and the file stays
_save_credentials(c, files, pickle_ok, json_ok) ==
    IF ~pickle_ok
    THEN [files EXCEPT !.pickle = Corrupt, !.raised = TRUE]
    ELSE [files EXCEPT !.pickle = c,
                       !.json = IF HAS_GMAIL_TOKEN_PATH /\ json_ok THEN creds_data(c) ELSE @,
                       !.raised = FALSE]

\* _migrate_credentials: backup, save in both forms, restore the pickle file
\* from backup_path if anything raised and a backup file exists
_migrate_credentials(c, files, o) ==
    IF ~o.backup_ok
    THEN IF files.backup # Absent
         THEN [files EXCEPT !.pickle = files.backup]
         ELSE files
    ELSE LET copied == [files EXCEPT !.backup = files.pickle]
             saved == _save_credentials(c, copied, o.pickle_ok, o.json_ok)
         IN  IF saved.raised
             THEN [saved EXCEPT !.pickle = copied.backup, !.raised = FALSE]
             ELSE saved

\* lines 26-39: the legacy file is read first; a readable one is migrated
load_pickle(files, o) ==
    IF files.pickle = Absent THEN [credentials |-> None, files |-> files]
    ELSE IF files.pickle = Corrupt THEN [credentials |-> None, files |-> files]
    ELSE [credentials |-> files.pickle,
          files |-> IF ENABLE_CREDENTIALS_MIGRATION /\ HAS_GMAIL_TOKEN_PATH
                    THEN _migrate_credentials(files.pickle, files, o)
                    ELSE files]

\* a loader that reads the JSON form whenever that file exists
load_json_always(credentials, files, o) ==
    IF HAS_GMAIL_TOKEN_PATH /\ files.json \notin {Absent, Corrupt}
    THEN from_authorized_user_info(files.json, o.json_stale)
    ELSE credentials

\* lines 41-50: the JSON file is read only if no credential was loaded
load_json(credentials, files, o) ==
    IF credentials = None /\ HAS_GMAIL_TOKEN_PATH /\ files.json # Absent
    THEN IF files.json = Corrupt
         THEN None
         ELSE from_authorized_user_info(files.json, o.json_stale)
    ELSE credentials

\* a refresh test that fails every credential that is not valid
can_refresh_never(credentials) == FALSE

\* a refresh test that does not look at the refresh token
can_refresh_without_token(credentials) ==
    credentials # None /\ credentials.expired

\* line 53: self.credentials and self.credentials.expired and
\* self.credentials.refresh_token
can_refresh(credentials) ==
    credentials # None /\ credentials.expired /\ credentials.refresh_token # Empty

\* the three files, and whether the call that produced them raised
Files(pickle, json, backup) ==
    [pickle |-> pickle, json |-> json, backup |-> backup, raised |-> FALSE]

\* OAuth2EmailBackend._load_or_refresh_credentials, run on these files with
\* these outcomes; n is the number of the token a refresh would obtain.
\* source: the form the credential was read from; endpoint_calls: the calls
\* of credentials.refresh; error: the exception that left the constructor
_load_or_refresh_credentials(files, o, n) ==
    LET p == load_pickle(files, o)
        c == load_json(p.credentials, p.files, o)
        source == IF p.credentials # None THEN "pickle"
                  ELSE IF c # None THEN "json" ELSE "none"
        base == [credentials |-> None, read |-> c, files |-> p.files, source |-> source,
                 endpoint_calls |-> 0, error |-> "none"]
    IN  IF c # None /\ valid(c)
        THEN [base EXCEPT !.credentials = c]
        ELSE IF can_refresh(c)
        THEN IF ~o.refresh_ok
             THEN [base EXCEPT !.endpoint_calls = 1, !.error = "RefreshError"]
             ELSE LET saved == _save_credentials(refresh(c, n), p.files, o.pickle_ok, o.json_ok)
                  IN  IF saved.raised
                      THEN [base EXCEPT !.endpoint_calls = 1, !.error = "OSError",
                                        !.files = [saved EXCEPT !.raised = FALSE]]
                      ELSE [base EXCEPT !.endpoint_calls = 1, !.credentials = refresh(c, n),
                                        !.files = saved]
        ELSE [base EXCEPT !.error = "Need to authorize Gmail access"]

(* ------------------------------ sending ------------------------------- *)

\* the messages a caller hands to send_messages, in list order
Messages == <<"m1", "m2", "m3", "m4", "m5">>

\* the result of a send_messages call that has not touched anything yet
NoSend ==
    [attempted |-> <<>>, sent |-> <<>>, num_sent |-> 0, raised |-> FALSE,
     built |-> FALSE]

\* a loop that gives up at the first failing message in either mode
send_loop_step_aborts(r, message, ok, fail_silently) ==
    LET tried == [r EXCEPT !.attempted = Append(@, message)] IN
    IF ok
    THEN [tried EXCEPT !.sent = Append(@, message), !.num_sent = @ + 1]
    ELSE [tried EXCEPT !.raised = TRUE]

\* a loop that counts a message whether or not the provider accepted it
send_loop_step_counts_failures(r, message, ok, fail_silently) ==
    LET tried == [r EXCEPT !.attempted = Append(@, message), !.num_sent = @ + 1] IN
    IF ok
    THEN [tried EXCEPT !.sent = Append(@, message)]
    ELSE IF ~fail_silently
         THEN [tried EXCEPT !.raised = TRUE]
         ELSE tried

\* one turn of the for loop of send_messages: the provider call for this
\* message, num_sent += 1 when it returned, and the inner except
send_loop_step(r, message, ok, fail_silently) ==
    LET tried == [r EXCEPT !.attempted = Append(@, message)] IN
    IF ok
    THEN [tried EXCEPT !.sent = Append(@, message), !.num_sent = @ + 1]
    ELSE IF ~fail_silently
         THEN [tried EXCEPT !.raised = TRUE]
         ELSE tried

\* the for loop from message i on; a raise leaves the loop
RECURSIVE send_loop(_, _, _, _, _)
send_loop(r, email_messages, provider_ok, fail_silently, i) ==
    IF i > Len(email_messages) \/ r.raised
    THEN r
    ELSE send_loop(send_loop_step(r, email_messages[i], provider_ok[i], fail_silently),
                   email_messages, provider_ok, fail_silently, i + 1)

\* OAuth2EmailBackend.send_messages: nothing is done for an empty list; a
\* failing build(...) is swallowed (return 0) in fail-silently mode and
\* re-raised otherwise; the return value is num_sent unless the call raised
send_messages(email_messages, provider_ok, build_ok, fail_silently) ==
    IF email_messages = <<>>
    THEN NoSend
    ELSE IF ~build_ok
    THEN [NoSend EXCEPT !.raised = ~fail_silently]
    ELSE send_loop([NoSend EXCEPT !.built = TRUE], email_messages, provider_ok,
                   fail_silently, 1)

(* --------------------------- mail handlers ---------------------------- *)

\* the arguments of a send_messages call, the outcomes of its provider
\* calls, and the mode of the connection: here of no call
NoCall ==
    [email_messages |-> <<>>, provider_ok |-> <<>>, build_ok |-> TRUE,
     fail_silently |-> FALSE]

\* read: the credential the files gave, before any refresh; call, send: the
\* last send_messages call and its result
NoOutcome ==
    [op |-> "none", error |-> "none", endpoint_calls |-> 0, source |-> "none",
     read |-> None, connected |-> FALSE, call |-> NoCall, send |-> NoSend]

\* get_connection(fail_silently=...)  --  OAuth2EmailBackend.__init__: the
\* credential is loaded or refreshed; an exception leaves no backend
OAuth2EmailBackend_init(o) ==
    LET r == _load_or_refresh_credentials(Files(pickle_file, json_file, backup_file),
                                          o, issued + 1)
        refreshed == r.endpoint_calls = 1 /\ r.error # "RefreshError"
    IN
    /\ r.endpoint_calls = 0 \/ issued < MaxIssued
    /\ pickle_file' = r.files.pickle
    /\ json_file' = r.files.json
    /\ backup_file' = r.files.backup
    /\ issued' = IF refreshed THEN issued + 1 ELSE issued
    /\ backend' = IF r.error = "none"
                  THEN [credentials |-> r.credentials]
                  ELSE None
    /\ outcome' = [NoOutcome EXCEPT !.op = "load", !.error = r.error,
                                    !.endpoint_calls = r.endpoint_calls,
                                    !.source = r.source,
                                    !.read = r.read]
    /\ UNCHANGED flow_vars
    /\ UNCHANGED workers

\* connection.send_messages(email_messages) on the backend just constructed;
\* fail_silently is the mode the connection was opened with
OAuth2EmailBackend_send_messages(email_messages, provider_ok, build_ok, fail_silently) ==
    /\ backend # None
    /\ outcome' = [NoOutcome EXCEPT
                      !.op = "send",
                      !.call = [email_messages |-> email_messages,
                                provider_ok |-> provider_ok,
                                build_ok |-> build_ok,
                                fail_silently |-> fail_silently],
                      !.send = send_messages(email_messages, provider_ok, build_ok,
                                             fail_silently)]
    /\ UNCHANGED <<pickle_file, json_file, backup_file, backend, issued>>
    /\ UNCHANGED flow_vars
    /\ UNCHANGED workers

\* GET google/callback/  --  GoogleAuthCallbackView.get: after fetch_token the
\* credential is pickled to gmail_token.pickle; every exception ends in the
\* error redirect
GoogleAuthCallbackView_get(fetch_ok, refresh_token, pickle_ok) ==
    LET credentials == [token |-> NewToken(issued + 1), refresh_token |-> refresh_token,
                        expired |-> FALSE]
    IN
    /\ issued < MaxIssued
    /\ issued' = IF fetch_ok THEN issued + 1 ELSE issued
    /\ pickle_file' = IF ~fetch_ok THEN pickle_file
                      ELSE IF pickle_ok THEN credentials ELSE Corrupt
    /\ outcome' = [NoOutcome EXCEPT !.op = "google_callback",
                                    !.error = IF fetch_ok /\ pickle_ok THEN "none" ELSE "oauth=error"]
    /\ UNCHANGED <<json_file, backup_file, backend>>
    /\ UNCHANGED flow_vars
    /\ UNCHANGED workers

\* GET gmail/callback/  --  GmailOAuthCallbackView.get: after fetch_token the
\* credential is pickled, then its creds_data are written to the JSON file
GmailOAuthCallbackView_get(fetch_ok, refresh_token, pickle_ok, json_ok) ==
    LET credentials == [token |-> NewToken(issued + 1), refresh_token |-> refresh_token,
                        expired |-> FALSE]
    IN
    /\ issued < MaxIssued
    /\ issued' = IF fetch_ok THEN issued + 1 ELSE issued
    /\ pickle_file' = IF ~fetch_ok THEN pickle_file
                      ELSE IF pickle_ok THEN credentials ELSE Corrupt
    /\ json_file' = IF fetch_ok /\ pickle_ok /\ json_ok THEN creds_data(credentials)
                    ELSE json_file
    /\ outcome' = [NoOutcome EXCEPT !.op = "gmail_callback",
                                    !.error = IF fetch_ok /\ pickle_ok /\ json_ok
                                              THEN "none" ELSE "oauth=error"]
    /\ UNCHANGED <<backup_file, backend>>
    /\ UNCHANGED flow_vars
    /\ UNCHANGED workers

\* CheckGmailConnectionView.get: the pickled credential is valid, or it is
\* expired with a refresh token and is refreshed and pickled again
CheckGmailConnectionView_get(refresh_ok, pickle_ok) ==
    LET req == [NoOutcome EXCEPT !.op = "check_connection"] IN
    /\ UNCHANGED <<json_file, backup_file, backend>>
    /\ UNCHANGED flow_vars
    /\ UNCHANGED workers
    /\ IF pickle_file \in {Absent, Corrupt}
       THEN /\ outcome' = req
            /\ UNCHANGED <<pickle_file, issued>>
       ELSE IF valid(pickle_file)
       THEN /\ outcome' = [req EXCEPT !.connected = TRUE]
            /\ UNCHANGED <<pickle_file, issued>>
       ELSE IF pickle_file.expired /\ pickle_file.refresh_token # Empty
       THEN /\ issued < MaxIssued
            /\ IF ~refresh_ok
               THEN /\ outcome' = [req EXCEPT !.endpoint_calls = 1, !.error = "RefreshError"]
                    /\ UNCHANGED <<pickle_file, issued>>
               ELSE /\ issued' = issued + 1
                    /\ pickle_file' = IF pickle_ok THEN refresh(pickle_file, issued + 1)
                                      ELSE Corrupt
                    /\ outcome' = [req EXCEPT !.endpoint_calls = 1, !.connected = pickle_ok,
                                              !.error = IF pickle_ok THEN "none" ELSE "OSError"]
       ELSE /\ outcome' = req
            /\ UNCHANGED <<pickle_file, issued>>

\* time passes the expiry of the pickled credential: from now on its
\* .expired property is true
AccessTokenExpires ==
    /\ pickle_file \notin {Absent, Corrupt}
    /\ ~pickle_file.expired
    /\ pickle_file' = [pickle_file EXCEPT !.expired = TRUE]
    /\ outcome' = [NoOutcome EXCEPT !.op = "expire"]
    /\ UNCHANGED <<json_file, backup_file, backend, issued>>
    /\ UNCHANGED flow_vars
    /\ UNCHANGED workers

(* ------------------ load(), one file operation at a time -------------- *)
(* Worker processes share the three credential files and nothing else; no  *)
(* lock is taken (oauth2.py has none).  A step of a worker is one file     *)
(* operation or one call of the token endpoint of                          *)
(* _load_or_refresh_credentials, _migrate_credentials, _save_credentials.  *)

Workers == {"w1", "w2"}

\* a worker that is not constructing a backend.  credentials: its
\* self.credentials; start: the content of the pickle file when its
\* _migrate_credentials was entered; backed_up: line 103 has completed in this
\* call; wrote: this call of _migrate_credentials has written the pickle file
\* or the JSON file; step_failed: a file operation or the refresh of this
\* load() has raised; refreshed: line 54 has succeeded in this load()
IdleWorker ==
    [pc |-> "idle", credentials |-> None, start |-> None, backed_up |-> FALSE,
     wrote |-> FALSE, step_failed |-> FALSE, refreshed |-> FALSE, error |-> "none"]

\* lines 18-21: a backend is constructed in worker w
load_begin(w) ==
    /\ workers[w].pc \in {"idle", "done", "failed"}
    /\ workers' = [workers EXCEPT ![w] = [IdleWorker EXCEPT !.pc = "read_pickle"]]
    /\ UNCHANGED <<pickle_file, json_file, backup_file, issued>>

\* lines 26-39: os.path.exists, pickle.load; a readable file goes to the
\* migration
load_read_pickle(w) ==
    /\ workers[w].pc = "read_pickle"
    /\ workers' = [workers EXCEPT ![w] =
                      IF pickle_file \in {Absent, Corrupt}
                      THEN [@ EXCEPT !.pc = "read_json"]
                      ELSE [@ EXCEPT !.credentials = pickle_file,
                                     !.start = pickle_file,
                                     !.pc = IF ENABLE_CREDENTIALS_MIGRATION /\ HAS_GMAIL_TOKEN_PATH
                                            THEN "backup" ELSE "validate"]]
    /\ UNCHANGED <<pickle_file, json_file, backup_file, issued>>

\* line 103: shutil.copy2(old_token_path, backup_path)
migrate_backup(w, ok) ==
    /\ workers[w].pc = "backup"
    /\ IF ok
       THEN /\ backup_file' = pickle_file
            /\ workers' = [workers EXCEPT ![w] = [@ EXCEPT !.backed_up = TRUE,
                                                           !.pc = "migrate_pickle"]]
       ELSE /\ UNCHANGED backup_file
            /\ workers' = [workers EXCEPT ![w] = [@ EXCEPT !.step_failed = TRUE,
                                                           !.pc = "restore"]]
    /\ UNCHANGED <<pickle_file, json_file, issued>>

\* lines 107, 74-75: the pickle write of the migration's _save_credentials
migrate_save_pickle(w, ok) ==
    /\ workers[w].pc = "migrate_pickle"
    /\ IF ok
       THEN /\ pickle_file' = workers[w].credentials
            /\ workers' = [workers EXCEPT ![w] = [@ EXCEPT !.wrote = TRUE,
                                                           !.pc = "migrate_json"]]
       ELSE /\ pickle_file' = Corrupt
            /\ workers' = [workers EXCEPT ![w] = [@ EXCEPT !.wrote = TRUE,
                                                           !.step_failed = TRUE,
                                                           !.pc = "restore"]]
    /\ UNCHANGED <<json_file, backup_file, issued>>

\* lines 79-96: the JSON write of the migration's _save_credentials; its
\* failure is logged and the migration returns
migrate_save_json(w, ok) ==
    /\ workers[w].pc = "migrate_json"
    /\ IF ok
       THEN /\ json_file' = creds_data(workers[w].credentials)
            /\ workers' = [workers EXCEPT ![w] = [@ EXCEPT !.pc = "validate"]]
       ELSE /\ UNCHANGED json_file
            /\ workers' = [workers EXCEPT ![w] = [@ EXCEPT !.step_failed = TRUE,
                                                           !.pc = "validate"]]
    /\ UNCHANGED <<pickle_file, backup_file, issued>>

\* lines 111-116: the except branch copies backup_path over the pickle file
\* if backup_path exists
migrate_restore(w) ==
    /\ workers[w].pc = "restore"
    /\ IF backup_file # Absent
       THEN /\ pickle_file' = backup_file
            /\ workers' = [workers EXCEPT ![w] = [@ EXCEPT !.wrote = TRUE,
                                                           !.pc = "validate"]]
       ELSE /\ UNCHANGED pickle_file
            /\ workers' = [workers EXCEPT ![w] = [@ EXCEPT !.pc = "validate"]]
    /\ UNCHANGED <<json_file, backup_file, issued>>

\* lines 41-50: the JSON file is read when the pickle file gave nothing
load_read_json(w, stale) ==
    /\ workers[w].pc = "read_json"
    /\ workers' = [workers EXCEPT ![w] =
                      [@ EXCEPT !.credentials =
                                    IF HAS_GMAIL_TOKEN_PATH /\ json_file \notin {Absent, Corrupt}
                                    THEN from_authorized_user_info(json_file, stale)
                                    ELSE None,
                                !.pc = "validate"]]
    /\ UNCHANGED <<pickle_file, json_file, backup_file, issued>>

\* lines 52-53, 56-69: valid, to be refreshed, or the consent error
load_validate(w) ==
    LET c == workers[w].credentials IN
    /\ workers[w].pc = "validate"
    /\ workers' = [workers EXCEPT ![w] =
                      IF c # None /\ valid(c)
                      THEN [@ EXCEPT !.pc = "done"]
                      ELSE IF can_refresh(c)
                      THEN [@ EXCEPT !.pc = "refresh"]
                      ELSE [@ EXCEPT !.pc = "failed",
                                     !.error = "Need to authorize Gmail access"]]
    /\ UNCHANGED <<pickle_file, json_file, backup_file, issued>>

\* line 54: self.credentials.refresh(Request())
load_refresh(w, ok) ==
    /\ workers[w].pc = "refresh"
    /\ issued < MaxIssued
    /\ IF ok
       THEN /\ issued' = issued + 1
            /\ workers' = [workers EXCEPT ![w] =
                              [@ EXCEPT !.credentials = refresh(@, issued + 1),
                                        !.refreshed = TRUE,
                                        !.pc = "save_pickle"]]
       ELSE /\ UNCHANGED issued
            /\ workers' = [workers EXCEPT ![w] = [@ EXCEPT !.step_failed = TRUE,
                                                           !.pc = "failed",
                                                           !.error = "RefreshError"]]
    /\ UNCHANGED <<pickle_file, json_file, backup_file>>

\* lines 55, 74-75: the pickle write after the refresh; its failure leaves
\* the constructor
load_save_pickle(w, ok) ==
    /\ workers[w].pc = "save_pickle"
    /\ IF ok
       THEN /\ pickle_file' = workers[w].credentials
            /\ workers' = [workers EXCEPT ![w] = [@ EXCEPT !.pc = "save_json"]]
       ELSE /\ pickle_file' = Corrupt
            /\ workers' = [workers EXCEPT ![w] = [@ EXCEPT !.step_failed = TRUE,
                                                           !.pc = "failed",
                                                           !.error = "OSError"]]
    /\ UNCHANGED <<json_file, backup_file, issued>>

\* lines 79-96: the JSON write after the refresh
load_save_json(w, ok) ==
    /\ workers[w].pc = "save_json"
    /\ IF ok
       THEN /\ json_file' = creds_data(workers[w].credentials)
            /\ workers' = [workers EXCEPT ![w] = [@ EXCEPT !.pc = "done"]]
       ELSE /\ UNCHANGED json_file
            /\ workers' = [workers EXCEPT ![w] = [@ EXCEPT !.step_failed = TRUE,
                                                           !.pc = "done"]]
    /\ UNCHANGED <<pickle_file, backup_file, issued>>

(* ------------------- the mail of a request ---------------------------- *)

\* django.core.mail.send_mail(..., [email], fail_silently=False) with
\* EMAIL_BACKEND = OAuth2EmailBackend: get_connection constructs the backend
\* (an exception of the constructor leaves send_mail), then
\* mail.send() hands the one message to send_messages; delivered: send_mail
\* returned
send_mail_backend(files, o, n, provider_ok, build_ok) ==
    LET r == _load_or_refresh_credentials(files, o, n)
        sent == send_messages(SubSeq(Messages, 1, 1), <<provider_ok>>, build_ok, FALSE)
    IN  IF r.error # "none"
        THEN [load |-> r, call |-> NoCall, send |-> NoSend, delivered |-> FALSE]
        ELSE [load |-> r,
              call |-> [email_messages |-> SubSeq(Messages, 1, 1),
                        provider_ok |-> <<provider_ok>>,
                        build_ok |-> build_ok,
                        fail_silently |-> FALSE],
              send |-> sent,
              delivered |-> ~sent.raised]

\* the ways a send_mail call can go on the files as they are now
send_mail_results ==
    {send_mail_backend(Files(pickle_file, json_file, backup_file), o, issued + 1,
                       provider_ok, build_ok) :
        o \in LoadOutcomes, provider_ok \in BOOLEAN, build_ok \in BOOLEAN}

\* the send_mail call of the request whose response is response', going the
\* way m: what it does to the credential files, and whether it returned
send_mail_of_request(m) ==
    /\ m.load.endpoint_calls = 0 \/ issued < MaxIssued
    /\ (response'.mail = "sent") = m.delivered
    /\ pickle_file' = m.load.files.pickle
    /\ json_file' = m.load.files.json
    /\ backup_file' = m.load.files.backup
    /\ issued' = IF m.load.endpoint_calls = 1 /\ m.load.error # "RefreshError"
                 THEN issued + 1
                 ELSE issued
    /\ backend' = IF m.load.error = "none"
                  THEN [credentials |-> m.load.credentials]
                  ELSE None
    /\ outcome' = [NoOutcome EXCEPT
                      !.op = "send_mail", !.error = m.load.error,
                      !.endpoint_calls = m.load.endpoint_calls,
                      !.source = m.load.source,
                      !.read = m.load.read,
                      !.call = m.call,
                      !.send = m.send]
    /\ UNCHANGED workers

\* POST register/ with the mail backend behind send_mail: a request that is
\* answered before send_mail is reached leaves the mail side alone
RegisterView_post_send_mail(s, username, email, password, confirm_password, first_name, last_name, m) ==
    /\ RegisterView_post(s, username, email, password, confirm_password,
                         first_name, last_name)
    /\ IF response'.mail = "none"
       THEN UNCHANGED mail_vars
       ELSE send_mail_of_request(m)

\* POST resend-otp/ with the mail backend behind send_mail
ResendOTPView_post_send_mail(s, email, m) ==
    /\ ResendOTPView_post(s, email)
    /\ IF response'.mail = "none"
       THEN UNCHANGED mail_vars
       ELSE send_mail_of_request(m)

(* -------------------------- specification ----------------------------- *)

\* no credential file, no backend: the mail side at rest
MailIdle ==
    /\ pickle_file = Absent
    /\ json_file = Absent
    /\ backup_file = Absent
    /\ backend = None
    /\ issued = 0
    /\ outcome = NoOutcome
    /\ workers = [w \in Workers |-> IdleWorker]

Init ==
    /\ users = {}
    /\ session = [s \in Sessions |-> EmptyDict]
    /\ now = 0
    /\ DEBUG \in BOOLEAN
    /\ response = NoResponse
    /\ MailIdle

Register ==
    \E s \in Sessions, username \in Usernames, email \in Emails,
       password \in Passwords, confirm_password \in Passwords,
       first_name \in FirstNames, last_name \in LastNames :
        /\ RegisterView_post(s, username, email, password, confirm_password,
                             first_name, last_name)
        /\ UNCHANGED mail_vars

Verify ==
    \E s \in Sessions, email \in Emails \cup {Empty}, otp \in SuppliedOtps :
        VerifyOTPView_post(s, email, otp) /\ UNCHANGED mail_vars

Resend ==
    \E s \in Sessions, email \in Emails \cup {Empty} :
        ResendOTPView_post(s, email) /\ UNCHANGED mail_vars

Cancel ==
    \E s \in Sessions, email \in Emails \cup {Empty} :
        CancelRegistrationView_post(s, email) /\ UNCHANGED mail_vars

Create ==
    \E username \in Usernames, email \in Emails,
       password \in Passwords, confirm_password \in Passwords,
       first_name \in FirstNames, last_name \in LastNames :
        /\ UserViewSet_create(username, email, password, confirm_password,
                              first_name, last_name)
        /\ UNCHANGED mail_vars

\* the registration / verification flow: its four endpoints and the clock
Next == Register \/ Verify \/ Resend \/ Cancel \/ Tick

Spec == Init /\ [][Next]_vars

\* every public endpoint of the users app that touches the user table or the
\* session: the flow and the router's create route
NextPublic == Register \/ Verify \/ Resend \/ Cancel \/ Create \/ Tick

SpecPublic == Init /\ [][NextPublic]_vars

\* the credential files as a deployment can find them, before any backend
\* is constructed; the registration side at rest
MailInit ==
    /\ users = {}
    /\ session = [s \in Sessions |-> EmptyDict]
    /\ now = 0
    /\ DEBUG = TRUE
    /\ response = NoResponse
    /\ pickle_file \in {Absent, Corrupt} \cup StoredCredentials
    /\ json_file \in {Absent, Corrupt} \cup {creds_data(c) : c \in StoredCredentials}
    /\ backup_file \in {Absent, OlderBackup}
    /\ backend = None
    /\ issued = 0
    /\ outcome = NoOutcome
    /\ workers = [w \in Workers |-> IdleWorker]

Load ==
    \E o \in LoadOutcomes : OAuth2EmailBackend_init(o)

Send ==
    \E k \in 0..MaxMessages, build_ok \in BOOLEAN, fail_silently \in BOOLEAN :
        \E provider_ok \in [1..k -> BOOLEAN] :
            OAuth2EmailBackend_send_messages(SubSeq(Messages, 1, k), provider_ok,
                                             build_ok, fail_silently)

GoogleCallback ==
    \E fetch_ok \in BOOLEAN, refresh_token \in RefreshTokens, pickle_ok \in BOOLEAN :
        GoogleAuthCallbackView_get(fetch_ok, refresh_token, pickle_ok)

GmailCallback ==
    \E fetch_ok \in BOOLEAN, refresh_token \in RefreshTokens,
       pickle_ok \in BOOLEAN, json_ok \in BOOLEAN :
        GmailOAuthCallbackView_get(fetch_ok, refresh_token, pickle_ok, json_ok)

CheckConnection ==
    \E refresh_ok \in BOOLEAN, pickle_ok \in BOOLEAN :
        CheckGmailConnectionView_get(refresh_ok, pickle_ok)

\* the credential: the constructor of the mail backend and the views that
\* write the credential files
NextMail ==
    Load \/ GoogleCallback \/ GmailCallback \/ CheckConnection \/ AccessTokenExpires

SpecMail == MailInit /\ [][NextMail]_vars

\* sending: connections are opened and lists of messages are sent on them
NextSend == Load \/ Send

SpecSend == MailInit /\ [][NextSend]_vars

\* two client sessions, each with its own session dictionary
TwoSessions == {"s1", "s2"}

\* the password the requests of this specification carry
AcceptedPasswords == {"Abc12345"}

SessionsInit ==
    /\ users = {}
    /\ session = [s \in TwoSessions |-> EmptyDict]
    /\ now = 0
    /\ DEBUG \in BOOLEAN
    /\ response = NoResponse
    /\ MailIdle

RegisterIn ==
    \E s \in TwoSessions, username \in Usernames, email \in Emails,
       password \in AcceptedPasswords,
       first_name \in FirstNames, last_name \in LastNames :
        /\ RegisterView_post(s, username, email, password, password,
                             first_name, last_name)
        /\ UNCHANGED mail_vars

VerifyIn ==
    \E s \in TwoSessions, email \in Emails, otp \in Codes :
        VerifyOTPView_post(s, email, otp) /\ UNCHANGED mail_vars

\* begin and verify requests of two sessions, in any order
NextSessions == RegisterIn \/ VerifyIn

SpecSessions == SessionsInit /\ [][NextSessions]_vars

\* the registration side at rest in either DEBUG mode; a pickle file that
\* is absent, unreadable, or holds a credential, and a JSON file that is
\* absent or holds the tokens of another credential
RequestMailInit ==
    /\ users = {}
    /\ session = [s \in Sessions |-> EmptyDict]
    /\ now = 0
    /\ DEBUG \in BOOLEAN
    /\ response = NoResponse
    /\ pickle_file \in {Absent, Corrupt} \cup {c \in StoredCredentials : c.token = "token_a"}
    /\ json_file \in {Absent, creds_data(OlderBackup)}
    /\ backup_file = Absent
    /\ backend = None
    /\ issued = 0
    /\ outcome = NoOutcome
    /\ workers = [w \in Workers |-> IdleWorker]

\* the name and the address the requests of this specification are made for
MailedUsernames == {"alice"}
MailedEmails == {"a@x.com"}

RegisterMail ==
    \E m \in send_mail_results :
        \E s \in Sessions, username \in MailedUsernames, email \in MailedEmails,
           password \in Passwords,
           first_name \in FirstNames, last_name \in LastNames :
            RegisterView_post_send_mail(s, username, email, password, password,
                                        first_name, last_name, m)

ResendMail ==
    \E m \in send_mail_results :
        \E s \in Sessions, email \in MailedEmails \cup {Empty} :
            ResendOTPView_post_send_mail(s, email, m)

\* the two requests that send mail, with the mail backend behind them
NextRequestMail == RegisterMail \/ ResendMail

SpecRequestMail == RequestMailInit /\ [][NextRequestMail]_vars

\* a worker process that constructs no backend
OffWorker == [IdleWorker EXCEPT !.pc = "off"]

\* the steps of load() in the worker processes
BeginLoad ==
    \E w \in Workers : load_begin(w) /\ UNCHANGED <<flow_vars, backend, outcome>>

ReadPickle ==
    \E w \in Workers : load_read_pickle(w) /\ UNCHANGED <<flow_vars, backend, outcome>>

MigrateBackup ==
    \E w \in Workers, ok \in BOOLEAN :
        migrate_backup(w, ok) /\ UNCHANGED <<flow_vars, backend, outcome>>

MigrateSavePickle ==
    \E w \in Workers, ok \in BOOLEAN :
        migrate_save_pickle(w, ok) /\ UNCHANGED <<flow_vars, backend, outcome>>

MigrateSaveJson ==
    \E w \in Workers, ok \in BOOLEAN :
        migrate_save_json(w, ok) /\ UNCHANGED <<flow_vars, backend, outcome>>

MigrateRestore ==
    \E w \in Workers : migrate_restore(w) /\ UNCHANGED <<flow_vars, backend, outcome>>

ReadJson ==
    \E w \in Workers, stale \in BOOLEAN :
        load_read_json(w, stale) /\ UNCHANGED <<flow_vars, backend, outcome>>

Validate ==
    \E w \in Workers : load_validate(w) /\ UNCHANGED <<flow_vars, backend, outcome>>

Refresh ==
    \E w \in Workers, ok \in BOOLEAN :
        load_refresh(w, ok) /\ UNCHANGED <<flow_vars, backend, outcome>>

SavePickle ==
    \E w \in Workers, ok \in BOOLEAN :
        load_save_pickle(w, ok) /\ UNCHANGED <<flow_vars, backend, outcome>>

SaveJson ==
    \E w \in Workers, ok \in BOOLEAN :
        load_save_json(w, ok) /\ UNCHANGED <<flow_vars, backend, outcome>>

\* the worker processes construct backends with no order between their
\* file operations
NextWorkers ==
    \/ BeginLoad \/ ReadPickle
    \/ MigrateBackup \/ MigrateSavePickle \/ MigrateSaveJson \/ MigrateRestore
    \/ ReadJson \/ Validate
    \/ Refresh \/ SavePickle \/ SaveJson

\* one worker process constructs backends, one after the other, on the
\* credential files as a deployment can find them
MigrateInit ==
    /\ users = {}
    /\ session = [s \in Sessions |-> EmptyDict]
    /\ now = 0
    /\ DEBUG = TRUE
    /\ response = NoResponse
    /\ pickle_file \in {Absent, Corrupt} \cup StoredCredentials
    /\ json_file \in {Absent, Corrupt} \cup {creds_data(c) : c \in StoredCredentials}
    /\ backup_file \in {Absent, OlderBackup}
    /\ backend = None
    /\ issued = 0
    /\ outcome = NoOutcome
    /\ workers = [w \in Workers |-> IF w = "w1" THEN IdleWorker ELSE OffWorker]

SpecMigrate == MigrateInit /\ [][NextWorkers]_vars

\* two worker processes; an expired credential with a refresh token in the
\* pickle file, the JSON file absent or holding tokens
WorkersInit ==
    /\ users = {}
    /\ session = [s \in Sessions |-> EmptyDict]
    /\ now = 0
    /\ DEBUG = TRUE
    /\ response = NoResponse
    /\ pickle_file \in {c \in StoredCredentials : c.expired /\ c.refresh_token # Empty}
    /\ json_file \in {Absent} \cup {creds_data(c) : c \in StoredCredentials}
    /\ backup_file \in {Absent, OlderBackup}
    /\ backend = None
    /\ issued = 0
    /\ outcome = NoOutcome
    /\ workers = [w \in Workers |-> IdleWorker]

SpecWorkers == WorkersInit /\ [][NextWorkers]_vars

(* ------------------------- state predicates --------------------------- *)

Pending(s, e) == registration_data_key(e) \in DOMAIN session[s]
HasCode(s, e) == otp_key(e) \in DOMAIN session[s]
StoredOtp(s, e) == session[s][otp_key(e)]
PendingData(s, e) == session[s][registration_data_key(e)]

\* the step from the current state to the next is the handling of this request
\* (the response is looked at first: it names the handler and the session)
VerifyStep(s, e, c) ==
    response'.op = "verify" /\ response'.sid = s /\ VerifyOTPView_post(s, e, c)
ResendStep(s, e) ==
    response'.op = "resend" /\ response'.sid = s /\ ResendOTPView_post(s, e)
CancelStep(s, e) ==
    response'.op = "cancel" /\ response'.sid = s /\ CancelRegistrationView_post(s, e)
RegisterStep(s, username, e, password, confirm_password, first_name, last_name) ==
    /\ response'.op = "register" /\ response'.sid = s
    /\ RegisterView_post(s, username, e, password, confirm_password, first_name, last_name)

TypeOK ==
    /\ now \in 0..MaxNow
    /\ DEBUG \in BOOLEAN
    /\ \A u \in users : u.username \in Usernames /\ u.is_active

\* the request carries an email and a code, both entries are in the session,
\* the code is the stored one and its expiry has not passed
ValidCode(s, e, c) ==
    /\ e # Empty /\ c # Empty
    /\ HasCode(s, e) /\ Pending(s, e)
    /\ now <= fromtimestamp(StoredOtp(s, e).expiry)
    /\ c = StoredOtp(s, e).code

\* the user record the pending data describes, verified and active
ExpectedUser(rd) ==
    [username |-> rd.username,
     email |-> normalize_email(rd.email),
     password |-> make_password(rd.password),
     first_name |-> rd.first_name,
     last_name |-> rd.last_name,
     is_active |-> TRUE,
     is_verified |-> TRUE]

\* no user of the table holds the pending username or the pending address
StoreAccepts(rd) ==
    \A u \in users : u.username # rd.username /\ u.email # normalize_email(rd.email)

\* the effect of a successful verify for e in session s
VerifiedOutcome(s, e) ==
    LET u == ExpectedUser(PendingData(s, e)) IN
    /\ u \notin users
    /\ users' = users \cup {u}
    /\ ~(Pending(s, e))'
    /\ ~(HasCode(s, e))'
    /\ response'.status = HTTP_201_CREATED
    /\ response'.tokens = {<<"access", u.email>>, <<"refresh", u.email>>}

(* ------------------------------- C1 ----------------------------------- *)

\* C1 as stated: every verify with the stored, unexpired code creates the
\* verified, active user from the pending data, deletes both session
\* entries and answers 201 with an access/refresh pair.
C1_AsStated ==
    [][\A s \in Sessions, e \in Emails, c \in Codes :
          (ValidCode(s, e, c) /\ VerifyStep(s, e, c)) => VerifiedOutcome(s, e)]_vars

\* C1 (amended): a verify with the stored, unexpired code, issued while no
\* user of the table holds the pending username or the pending address,
\* creates the verified, active user from the pending data, deletes both
\* session entries and answers 201 with an access/refresh pair.
C1_VerifyCreatesUser ==
    [][\A s \in Sessions, e \in Emails, c \in Codes :
          (ValidCode(s, e, c) /\ StoreAccepts(PendingData(s, e)) /\ VerifyStep(s, e, c))
              => VerifiedOutcome(s, e)]_vars

\* a verify has just answered 201: the user it names exists, verified and
\* active, and the session holds nothing for that address any more
C1_Witness ==
    /\ response.op = "verify"
    /\ response.status = HTTP_201_CREATED
    /\ \E u \in users, s \in Sessions, e \in Emails :
          /\ u.is_verified /\ u.is_active
          /\ u.email = normalize_email(e)
          /\ response.tokens = {<<"access", u.email>>, <<"refresh", u.email>>}
          /\ ~Pending(s, e) /\ ~HasCode(s, e)

(* ------------------------------- C2 ----------------------------------- *)

\* C2: every step that adds a user record is a verify whose supplied code
\* equals the unexpired code stored for that email.
C2_OnlyVerifiedCreation ==
    [][users' # users =>
          \E s \in Sessions, e \in Emails, c \in Codes :
              ValidCode(s, e, c) /\ VerifyStep(s, e, c)]_vars

(* --------------------------- the responses ---------------------------- *)

\* 400 "Your verification code has expired or is invalid. Please register again."
NoPendingResponse(r) ==
    /\ r.op = "verify"
    /\ r.status = HTTP_400_BAD_REQUEST
    /\ r.message = "expired or is invalid. Please register again"

\* 400 "Your verification code has expired. Please register again."
ExpiredResponse(r) ==
    /\ r.op = "verify"
    /\ r.status = HTTP_400_BAD_REQUEST
    /\ r.message = "Your verification code has expired"

\* 400 "Invalid verification code. Please try again."
MismatchResponse(r) ==
    /\ r.op = "verify"
    /\ r.status = HTTP_400_BAD_REQUEST
    /\ r.message = "Invalid verification code"

\* the last request was a verify of session s that created the user of address e
JustVerified(s, e) ==
    /\ response.op = "verify"
    /\ response.sid = s
    /\ response.status = HTTP_201_CREATED
    /\ response.tokens = {<<"access", normalize_email(e)>>, <<"refresh", normalize_email(e)>>}

(* ------------------------------- C3 ----------------------------------- *)

\* C3 as stated: a verify with the stored, unexpired code succeeds and adds
\* exactly one user record, and a verify of the same session and email that
\* follows it immediately gets the no-pending-registration 400 and adds none.
C3_AsStated ==
    [][\A s \in Sessions, e \in Emails, c \in Codes :
          /\ (ValidCode(s, e, c) /\ VerifyStep(s, e, c))
                => /\ response'.status = HTTP_201_CREATED
                   /\ Cardinality(users') = Cardinality(users) + 1
          /\ (JustVerified(s, e) /\ VerifyStep(s, e, c))
                => /\ NoPendingResponse(response')
                   /\ users' = users]_vars

\* C3 (amended): a verify with the stored, unexpired code, issued while no
\* user holds the pending username or address, succeeds and adds exactly one
\* user record; a verify of the same session and email that follows it
\* immediately, whatever code it carries, gets the no-pending-registration
\* 400 and adds no user record.
C3_ExactlyOnce ==
    [][\A s \in Sessions, e \in Emails, c \in Codes :
          /\ (ValidCode(s, e, c) /\ StoreAccepts(PendingData(s, e)) /\ VerifyStep(s, e, c))
                => /\ response'.status = HTTP_201_CREATED
                   /\ Cardinality(users') = Cardinality(users) + 1
          /\ (JustVerified(s, e) /\ VerifyStep(s, e, c))
                => /\ NoPendingResponse(response')
                   /\ users' = users]_vars

\* a verify was answered with the no-pending 400 in a session whose address
\* already has its verified user and no entries left: the second verify
C3_Witness ==
    /\ NoPendingResponse(response)
    /\ \E s \in Sessions, e \in Emails :
          /\ response.sid = s
          /\ ~HasCode(s, e) /\ ~Pending(s, e)
          /\ \E u \in users : u.email = normalize_email(e) /\ u.is_verified
          /\ Cardinality(users) = 1

(* ------------------------------- C4 ----------------------------------- *)

\* C4: a verify that arrives after the stored expiry, with any code, gets the
\* expired 400, removes the code and the pending registration of that email
\* and leaves the user table alone; a verify for an email without a code entry
\* (the state the first one leaves) gets the no-pending 400 and changes
\* neither table nor session.
C4_ExpiredCleanup ==
    [][\A s \in Sessions, e \in Emails, c \in Codes :
          /\ (HasCode(s, e) /\ now > fromtimestamp(StoredOtp(s, e).expiry)
                 /\ VerifyStep(s, e, c))
                => /\ ExpiredResponse(response')
                   /\ ~(HasCode(s, e))'
                   /\ ~(Pending(s, e))'
                   /\ users' = users
          /\ (~HasCode(s, e) /\ VerifyStep(s, e, c))
                => /\ NoPendingResponse(response')
                   /\ users' = users
                   /\ session' = session]_vars

\* an expired verify has been answered: the clock is past the first window
\* and some email has neither entry
C4_Witness ==
    /\ ExpiredResponse(response)
    /\ now > OTP_EXPIRY_MINUTES
    /\ \E s \in Sessions, e \in Emails :
          response.sid = s /\ ~HasCode(s, e) /\ ~Pending(s, e)

(* ------------------------------- C5 ----------------------------------- *)

\* C5 as stated: no verify succeeds after the expiry of the stored code; a
\* verify at now = expiry with the stored code succeeds; a success deletes
\* the code it matched, so no code is consumed twice.
C5_AsStated ==
    [][\A s \in Sessions, e \in Emails, c \in Codes :
          /\ (HasCode(s, e) /\ now > fromtimestamp(StoredOtp(s, e).expiry)
                 /\ VerifyStep(s, e, c))
                => (users' = users /\ response'.status # HTTP_201_CREATED)
          /\ (ValidCode(s, e, c) /\ now = fromtimestamp(StoredOtp(s, e).expiry)
                 /\ VerifyStep(s, e, c))
                => (response'.status = HTTP_201_CREATED /\ users' # users)
          /\ (VerifyStep(s, e, c) /\ (response'.status = HTTP_201_CREATED \/ users' # users))
                => (ValidCode(s, e, c) /\ ~(HasCode(s, e))')]_vars

\* C5 (amended): no verify succeeds after the expiry of the stored code; a
\* verify at now = expiry with the stored code succeeds when no user holds
\* the pending username or address; every success was for the stored,
\* unexpired code and deletes it, so no code is consumed twice.
C5_UsableUntilExpiry ==
    [][\A s \in Sessions, e \in Emails, c \in Codes :
          /\ (HasCode(s, e) /\ now > fromtimestamp(StoredOtp(s, e).expiry)
                 /\ VerifyStep(s, e, c))
                => (users' = users /\ response'.status # HTTP_201_CREATED)
          /\ (ValidCode(s, e, c) /\ now = fromtimestamp(StoredOtp(s, e).expiry)
                 /\ StoreAccepts(PendingData(s, e))
                 /\ VerifyStep(s, e, c))
                => (response'.status = HTTP_201_CREATED /\ users' # users)
          /\ (VerifyStep(s, e, c) /\ (response'.status = HTTP_201_CREATED \/ users' # users))
                => (ValidCode(s, e, c) /\ ~(HasCode(s, e))')]_vars

\* a verify succeeded at minute 10, the last usable minute of every code
\* issued at minute 0, and its code entry is gone
C5_Witness ==
    /\ now = OTP_EXPIRY_MINUTES
    /\ \E s \in Sessions, e \in Emails :
          /\ JustVerified(s, e)
          /\ ~HasCode(s, e)
          /\ \E u \in users : u.email = normalize_email(e) /\ u.is_verified

(* ------------------------------- C6 ----------------------------------- *)

\* what every successful resend does to the entries of e in session s: the
\* key set is the same (the code entry is replaced, none is added), the
\* registration data is untouched, the expiry is resend time + 10 minutes
ResendReplaces(s, e) ==
    /\ DOMAIN session'[s] = DOMAIN session[s]
    /\ (PendingData(s, e))' = PendingData(s, e)
    /\ (StoredOtp(s, e))'.code \in Codes
    /\ fromtimestamp((StoredOtp(s, e))'.expiry) = now + OTP_EXPIRY_MINUTES
    /\ \A k \in DOMAIN session[s] \ {otp_key(e)} : session'[s][k] = session[s][k]
    /\ response'.debug_otp \subseteq {(StoredOtp(s, e))'.code}

\* C6 as stated: after a resend the previously stored code is no longer the
\* stored one (it no longer verifies), the session holds one code entry for
\* the email with expiry resend time + 10 minutes, and a verify succeeds
\* only with the stored (newest) code.
C6_AsStated ==
    [][\A s \in Sessions, e \in Emails :
          /\ (Pending(s, e) /\ HasCode(s, e) /\ ResendStep(s, e))
                => /\ ResendReplaces(s, e)
                   /\ (StoredOtp(s, e))'.code # StoredOtp(s, e).code
          /\ \A c \in Codes :
                (HasCode(s, e) /\ c # StoredOtp(s, e).code /\ VerifyStep(s, e, c))
                    => (response'.status # HTTP_201_CREATED /\ users' = users)]_vars

\* C6 (amended): a resend replaces the code entry of the email by a freshly
\* drawn code with expiry resend time + 10 minutes and adds no entry; from
\* then on a verify succeeds only with the stored (newest) code, so the
\* previous code no longer verifies unless the fresh draw repeats it.
C6_ResendReplaces ==
    [][\A s \in Sessions, e \in Emails :
          /\ (Pending(s, e) /\ HasCode(s, e) /\ ResendStep(s, e))
                => ResendReplaces(s, e)
          /\ \A c \in Codes :
                (HasCode(s, e) /\ c # StoredOtp(s, e).code /\ VerifyStep(s, e, c))
                    => (response'.status # HTTP_201_CREATED /\ users' = users)]_vars

\* a resend was answered at minute 5 for a registration begun at minute 0:
\* one code entry, expiring at minute 15, while the old expiry (10) is ahead
C6_Witness ==
    /\ response.op = "resend"
    /\ response.status = HTTP_200_OK
    /\ now = OTP_EXPIRY_MINUTES \div 2
    /\ \E s \in Sessions, e \in Emails :
          /\ response.sid = s
          /\ Pending(s, e) /\ HasCode(s, e)
          /\ DOMAIN session[s] = {otp_key(e), registration_data_key(e)}
          /\ fromtimestamp(StoredOtp(s, e).expiry) = now + OTP_EXPIRY_MINUTES

(* ------------------------------- C7 ----------------------------------- *)

\* the last request was a verify answered with the mismatch 400
JustMismatched(s) == response.sid = s /\ MismatchResponse(response)

\* C7 as stated: a verify with a code other than the stored, unexpired one
\* gets the mismatch 400 and changes neither the session nor the users;
\* right after any mismatch the stored code still verifies within its window.
C7_AsStated ==
    [][\A s \in Sessions, e \in Emails, c \in Codes :
          /\ (HasCode(s, e) /\ Pending(s, e)
                 /\ now <= fromtimestamp(StoredOtp(s, e).expiry)
                 /\ c # StoredOtp(s, e).code
                 /\ VerifyStep(s, e, c))
                => /\ MismatchResponse(response')
                   /\ session' = session
                   /\ users' = users
          /\ (JustMismatched(s) /\ ValidCode(s, e, c) /\ VerifyStep(s, e, c))
                => (response'.status = HTTP_201_CREATED /\ users' # users)]_vars

\* C7 (amended): a verify with a code other than the stored, unexpired one
\* gets the mismatch 400 and changes neither the session nor the users, any
\* number of times; right after any mismatch the stored code still verifies
\* within its window when no user holds the pending username or address.
C7_MismatchLeavesPending ==
    [][\A s \in Sessions, e \in Emails, c \in Codes :
          /\ (HasCode(s, e) /\ Pending(s, e)
                 /\ now <= fromtimestamp(StoredOtp(s, e).expiry)
                 /\ c # StoredOtp(s, e).code
                 /\ VerifyStep(s, e, c))
                => /\ MismatchResponse(response')
                   /\ session' = session
                   /\ users' = users
          /\ (JustMismatched(s) /\ ValidCode(s, e, c) /\ StoreAccepts(PendingData(s, e))
                 /\ VerifyStep(s, e, c))
                => (response'.status = HTTP_201_CREATED /\ users' # users)]_vars

\* a mismatch was answered and the registration it was aimed at is intact:
\* both entries present, the code unexpired
C7_Witness ==
    /\ MismatchResponse(response)
    /\ \E s \in Sessions, e \in Emails :
          /\ response.sid = s
          /\ DOMAIN session[s] = {otp_key(e), registration_data_key(e)}
          /\ now <= fromtimestamp(StoredOtp(s, e).expiry)

(* ------------------------------- C8 ----------------------------------- *)

\* the entries a begin leaves when it reached the mail step: registration
\* data and a code that is usable from now on for 10 minutes
RegistrationStored(s, e) ==
    /\ (Pending(s, e))'
    /\ (HasCode(s, e))'
    /\ (StoredOtp(s, e))'.code \in Codes
    /\ fromtimestamp((StoredOtp(s, e))'.expiry) = now + OTP_EXPIRY_MINUTES
    /\ (PendingData(s, e))'.email = e

\* C8 as stated: when the mail fails in begin, the registration data and the
\* code stay stored and usable and the response is a success that flags the
\* mail failure.
C8_AsStated ==
    [][\A s \in Sessions, e \in Emails, un \in Usernames, p \in Passwords, cp \in Passwords,
          fn \in FirstNames, ln \in LastNames :
          (response'.mail = "failed" /\ RegisterStep(s, un, e, p, cp, fn, ln))
              => /\ RegistrationStored(s, e)
                 /\ response'.status = HTTP_200_OK
                 /\ response'.message = "Registration data received, but email sending failed"]_vars

\* C8 (amended): when the mail fails in begin, the registration data and the
\* code stay stored and usable; the response is a 200 success that flags the
\* mail failure (and carries the code) only when DEBUG is on, and a 500
\* error when DEBUG is off.
C8_MailFailureKeepsRegistration ==
    [][\A s \in Sessions, e \in Emails, un \in Usernames, p \in Passwords, cp \in Passwords,
          fn \in FirstNames, ln \in LastNames :
          (response'.mail = "failed" /\ RegisterStep(s, un, e, p, cp, fn, ln))
              => /\ RegistrationStored(s, e)
                 /\ DEBUG =>
                       /\ response'.status = HTTP_200_OK
                       /\ response'.message = "Registration data received, but email sending failed"
                       /\ response'.debug_otp = {(StoredOtp(s, e))'.code}
                 /\ ~DEBUG =>
                       /\ response'.status = HTTP_500_INTERNAL_SERVER_ERROR
                       /\ response'.debug_otp = {}]_vars

\* a begin has just been answered after the mail failed, and the session
\* holds the registration with its code
C8_Witness ==
    /\ response.op = "register"
    /\ response.mail = "failed"
    /\ \E s \in Sessions, e \in Emails :
          /\ response.sid = s
          /\ Pending(s, e) /\ HasCode(s, e)
          /\ fromtimestamp(StoredOtp(s, e).expiry) = now + OTP_EXPIRY_MINUTES

(* ------------------------------- C9 ----------------------------------- *)

\* C9: in every session and for every email, the code entry exists exactly
\* when the registration-data entry exists (the dictionary holds at most one
\* value under each key).
C9_CodeIffPending ==
    \A s \in Sessions, e \in Emails : HasCode(s, e) <=> Pending(s, e)

\* both emails are pending with their codes in one session
C9_Witness ==
    \E s \in Sessions :
        /\ \A e \in Emails : HasCode(s, e) /\ Pending(s, e)
        /\ Cardinality(DOMAIN session[s]) = 2 * Cardinality(Emails)

(* ------------------------------- C10 ---------------------------------- *)

\* C10: a cancel that names an email answers 200 whatever the session holds,
\* leaves neither entry for that email and touches nothing else; on a session
\* that holds nothing for the email (the state a first cancel leaves) it
\* answers 200 again and leaves the session as it is.
C10_CancelIdempotent ==
    [][\A s \in Sessions, e \in Emails :
          CancelStep(s, e)
              => /\ response'.status = HTTP_200_OK
                 /\ response'.message = "Registration cancelled successfully"
                 /\ ~(Pending(s, e))'
                 /\ ~(HasCode(s, e))'
                 /\ DOMAIN session'[s] = DOMAIN session[s] \ {otp_key(e), registration_data_key(e)}
                 /\ \A k \in DOMAIN session'[s] : session'[s][k] = session[s][k]
                 /\ users' = users
                 /\ (~Pending(s, e) /\ ~HasCode(s, e)) => session' = session
                 /\ cancel_cleanup(session'[s], e) = session'[s]]_vars

\* a cancel was answered 200 on a session that holds nothing at all
C10_Witness ==
    /\ response.op = "cancel"
    /\ response.status = HTTP_200_OK
    /\ \E s \in Sessions : response.sid = s /\ DOMAIN session[s] = {}

(* ------------------------------- C11 ---------------------------------- *)

\* C11: a resend for an email that has no registration data in the session
\* answers 400 (no pending registration), attempts no mail, and leaves the
\* session and the user table as they are; every resend that changes the
\* session was issued for an email whose registration data is stored.
C11_ResendNeedsPending ==
    [][\A s \in Sessions, e \in Emails :
          /\ (~Pending(s, e) /\ ResendStep(s, e))
                => /\ response'.status = HTTP_400_BAD_REQUEST
                   /\ response'.message = "No pending registration found"
                   /\ response'.mail = "none"
                   /\ response'.debug_otp = {}
                   /\ session' = session
                   /\ users' = users
                   /\ ~(HasCode(s, e))'
          /\ (ResendStep(s, e) /\ session' # session) => Pending(s, e)]_vars

\* a resend was refused after the registration it names had been completed:
\* the user exists and the session holds nothing
C11_Witness ==
    /\ response.op = "resend"
    /\ response.status = HTTP_400_BAD_REQUEST
    /\ response.message = "No pending registration found"
    /\ users # {}
    /\ \E s \in Sessions : response.sid = s /\ DOMAIN session[s] = {}

(* ------------------------------- C12 ---------------------------------- *)

\* some user record carries this username
UsernameTaken(username) == \E u \in users : u.username = username

\* some user record carries this address (records hold the normalised form)
EmailTaken(email) == \E u \in users : u.email = normalize_email(email)

\* some user record carries this address exactly as it is written
EmailStored(email) == \E u \in users : u.email = email

\* C12: a begin with a taken username answers 400 naming only the username,
\* whatever the email and the passwords are; a begin with a free username
\* and a taken email answers 400 naming only the email.
C12_UniquenessOrder ==
    [][\A s \in Sessions, username \in Usernames, e \in Emails,
          p \in Passwords, cp \in Passwords, f \in FirstNames, l \in LastNames :
          RegisterStep(s, username, e, p, cp, f, l)
              => /\ UsernameTaken(username)
                       => /\ response'.status = HTTP_400_BAD_REQUEST
                          /\ response'.errors = {<<"username", "exists">>}
                 /\ (~UsernameTaken(username) /\ EmailTaken(e))
                       => /\ response'.status = HTTP_400_BAD_REQUEST
                          /\ response'.errors = {<<"email", "exists">>}]_vars

\* C12, the order of the two look-ups as the handler performs them: the
\* username look-up answers first, and the email look-up answers next for an
\* address that a user record carries verbatim.
C12_LookupOrder ==
    [][\A s \in Sessions, username \in Usernames, e \in Emails,
          p \in Passwords, cp \in Passwords, f \in FirstNames, l \in LastNames :
          RegisterStep(s, username, e, p, cp, f, l)
              => /\ UsernameTaken(username)
                       => /\ response'.status = HTTP_400_BAD_REQUEST
                          /\ response'.errors = {<<"username", "exists">>}
                 /\ (~UsernameTaken(username) /\ EmailStored(e))
                       => /\ response'.status = HTTP_400_BAD_REQUEST
                          /\ response'.errors = {<<"email", "exists">>}]_vars

(* ------------------------------- C13 ---------------------------------- *)

\* the field errors a refused begin can carry
BeginErrors ==
    {<<"username", "exists">>, <<"email", "exists">>,
     <<"password", "policy">>, <<"password", "mismatch">>}

\* C13: a begin whose username or email the look-ups find, whose password
\* violates the policy, or whose two passwords differ, never gets an answer
\* other than 400; and every begin that answers 400 carries such field
\* errors, attempts no mail, and leaves every session entry and the user
\* table as they were.
C13_FailedBeginStoresNothing ==
    [][/\ (response'.op = "register" /\ response'.status # HTTP_400_BAD_REQUEST)
             => \A s \in Sessions, username \in Usernames, e \in Emails,
                   p \in Passwords, cp \in Passwords, f \in FirstNames, l \in LastNames :
                   (UsernameTaken(username) \/ EmailStored(e)
                       \/ ~password_policy_ok(p) \/ p # cp)
                      => ~RegisterView_post(s, username, e, p, cp, f, l)
       /\ (response'.op = "register" /\ response'.status = HTTP_400_BAD_REQUEST)
             => /\ response'.errors # {}
                /\ response'.errors \subseteq BeginErrors
                /\ response'.mail = "none"
                /\ session' = session
                /\ users' = users]_vars

\* a begin was refused for its mismatching passwords while the session held
\* a pending registration and its code
C13_Witness ==
    /\ response.op = "register"
    /\ response.status = HTTP_400_BAD_REQUEST
    /\ response.errors = {<<"password", "mismatch">>}
    /\ \E s \in Sessions, e \in Emails :
          response.sid = s /\ Pending(s, e) /\ HasCode(s, e)

(* ------------------------------- C14 ---------------------------------- *)

\* C14: once a user record exists for an email, every begin for that email
\* is refused with the duplicate-email error (the duplicate-username error
\* when the username is taken as well, which is looked up first) and leaves
\* the session as it is, and no step removes the record or adds a second
\* record for that email.
C14_DoneIsTerminal ==
    [][\A e \in Emails :
          EmailTaken(e)
              => /\ \A s \in Sessions, username \in Usernames,
                       p \in Passwords, cp \in Passwords,
                       f \in FirstNames, l \in LastNames :
                       RegisterStep(s, username, e, p, cp, f, l)
                           => /\ response'.status = HTTP_400_BAD_REQUEST
                              /\ response'.errors =
                                    (IF UsernameTaken(username)
                                     THEN {<<"username", "exists">>}
                                     ELSE {<<"email", "exists">>})
                              /\ session' = session
                 /\ users \subseteq users'
                 /\ \A u \in users' \ users : u.email # normalize_email(e)]_vars

\* C14, the part about the user table alone: a record, once there, is never
\* removed, and no step adds a record for an address that already has one.
C14_RecordStays ==
    [][/\ users \subseteq users'
       /\ \A u \in users' \ users : \A v \in users : u.email # v.email]_vars

(* ------------------------------- C15 ---------------------------------- *)

\* C15: whatever they answer, begin, resend and cancel leave the user table
\* exactly as it was (every step of one of these handlers names the handler
\* in the op field of the response it leaves).
C15_FlowLeavesUsers ==
    [][response'.op \in {"register", "resend", "cancel"} => users' = users]_vars

\* a begin has just been accepted (200) while the user table holds a record,
\* and the table holds no record for a pending address of that session
C15_Witness ==
    /\ response.op = "register"
    /\ response.status = HTTP_200_OK
    /\ users # {}
    /\ \E s \in Sessions, e \in Emails :
          response.sid = s /\ Pending(s, e) /\ ~EmailTaken(e)

(* ====================================================================== *)
(* The credential of the mail backend                                     *)
(* ====================================================================== *)

\* the step is the construction of a backend: every action of the mail side
\* leaves its own name in outcome.op
LoadStep == outcome'.op = "load"

\* the file holds a credential (it exists and can be read)
Readable(file) == file \notin {Absent, Corrupt}

\* the access token and the refresh token a file holds
TokensOf(file) == IF Readable(file) THEN creds_data(file) ELSE file

\* the load read a credential that is not valid and has a refresh token
RefreshableRead(r) == r # None /\ ~valid(r) /\ r.refresh_token # Empty

\* the load read a credential that is expired and has a refresh token
ExpiredWithRefreshToken(r) == r # None /\ r.expired /\ r.refresh_token # Empty

\* the load read nothing, or a credential that is not valid and has no
\* refresh token
NoRefreshPath(r) == r = None \/ (~valid(r) /\ r.refresh_token = Empty)

(* ------------------------------- C16 ---------------------------------- *)

InSync ==
    /\ Readable(pickle_file)
    /\ Readable(json_file)
    /\ json_file = creds_data(pickle_file)

\* the step is a consent callback, a load, or a connection check
WritingStep ==
    outcome'.op \in {"load", "google_callback", "gmail_callback", "check_connection"}

\* C18: after every completed operation that wrote a credential file, the
\* JSON file holds the same access token and refresh token as the pickle
\* file.
C18_FormsInSync ==
    [][(/\ WritingStep
        /\ outcome'.error = "none"
        /\ (pickle_file' # pickle_file \/ json_file' # json_file))
          => InSync']_vars

(* ------------------------------- C19 ---------------------------------- *)

SendStep ==
    /\ outcome'.op = "send"
    /\ outcome'.call.email_messages # <<>>
    /\ outcome'.call.build_ok

\* the positions of the messages the provider fails on
Failing(provider_ok) == {i \in DOMAIN provider_ok : ~provider_ok[i]}

\* the first of them
FirstFailing(provider_ok) ==
    CHOOSE i \in Failing(provider_ok) : \A j \in Failing(provider_ok) : i <= j

\* message m is among the messages sent
IsSent(r, m) == \E j \in 1..Len(r.sent) : r.sent[j] = m

\* C20: with the provider client built, a send in fail-silently mode raises
\* nothing, attempts every message of the list, and counts and sends exactly
\* the messages the provider accepted; a send in the other mode with a
\* failing message raises, has attempted the messages up to and including
\* the first failing one and no later one, and has sent and counted exactly
\* the messages before it; with no failing message it sends them all.
C20_PerMessageFailure ==
    [][SendStep =>
         LET email_messages == outcome'.call.email_messages
             provider_ok == outcome'.call.provider_ok
             k == Len(email_messages)
             r == outcome'.send
         IN  IF outcome'.call.fail_silently
             THEN /\ ~r.raised
                  /\ r.attempted = email_messages
                  /\ r.num_sent = k - Cardinality(Failing(provider_ok))
                  /\ Len(r.sent) = r.num_sent
                  /\ \A i \in 1..k : IsSent(r, email_messages[i]) <=> provider_ok[i]
             ELSE IF Failing(provider_ok) = {}
             THEN /\ ~r.raised
                  /\ r.attempted = email_messages
                  /\ r.sent = email_messages
                  /\ r.num_sent = k
             ELSE LET f == FirstFailing(provider_ok) IN
                  /\ r.raised
                  /\ r.attempted = SubSeq(email_messages, 1, f)
                  /\ r.sent = SubSeq(email_messages, 1, f - 1)
                  /\ r.num_sent = f - 1]_vars

\* a send in fail-silently mode has gone past a failing second message: the
\* third one was attempted and sent, nothing was raised, the count is two
C20_Witness ==
    /\ outcome.op = "send"
    /\ outcome.call.fail_silently
    /\ outcome.call.email_messages = SubSeq(Messages, 1, 3)
    /\ ~outcome.call.provider_ok[2]
    /\ ~outcome.send.raised
    /\ outcome.send.attempted = SubSeq(Messages, 1, 3)
    /\ outcome.send.sent = <<Messages[1], Messages[3]>>
    /\ outcome.send.num_sent = 2

(* ------------------------------- C21 ---------------------------------- *)

\* sequence p is the beginning of sequence q
IsPrefix(p, q) == Len(p) <= Len(q) /\ p = SubSeq(q, 1, Len(p))

\* the provider calls of a send that succeeded, by position in the list
Accepted(call, r) == {i \in 1..Len(r.attempted) : call.provider_ok[i]}

\* C21: the provider calls of a send are made for the messages of the list
\* in list order, one call for one message and none twice; a send that
\* returns normally returns the number of provider calls that succeeded,
\* which lies between 0 and the length of the list; a send of the empty
\* list returns 0 and neither builds the provider client nor calls it.
C21_OncePerMessage ==
    [][outcome'.op = "send" =>
         LET call == outcome'.call
             r == outcome'.send
         IN  /\ IsPrefix(r.attempted, call.email_messages)
             /\ ~r.raised
                   => /\ r.num_sent = Cardinality(Accepted(call, r))
                      /\ r.num_sent >= 0
                      /\ r.num_sent <= Len(call.email_messages)
             /\ call.email_messages = <<>>
                   => /\ ~r.raised
                      /\ r.num_sent = 0
                      /\ r.attempted = <<>>
                      /\ ~r.built]_vars

\* a send of three messages has returned 2: the provider refused the first
\* message and accepted the two after it
C21_Witness ==
    /\ outcome.op = "send"
    /\ outcome.call.email_messages = SubSeq(Messages, 1, 3)
    /\ outcome.call.provider_ok = <<FALSE, TRUE, TRUE>>
    /\ ~outcome.send.raised
    /\ outcome.send.attempted = SubSeq(Messages, 1, 3)
    /\ outcome.send.num_sent = 2

(* ------------------------------- C22 ---------------------------------- *)

\* the step is a begin or a resend that reached send_mail while the backend
\* could not load or refresh its credential
CredentialFailureStep ==
    /\ response'.op \in {"register", "resend"}
    /\ response'.mail # "none"
    /\ outcome'.op = "send_mail"
    /\ outcome'.error # "none"

\* C22 as stated: a begin or a resend whose send_mail finds the mail backend
\* unable to load or refresh its credential is answered with 500.
C22_AsStated ==
    [][CredentialFailureStep
          => response'.status = HTTP_500_INTERNAL_SERVER_ERROR]_vars

\* C22 (amended): a begin or a resend whose send_mail finds the mail backend
\* unable to load or refresh its credential is answered with 500 when
\* settings.DEBUG is off, and with 200 carrying debug_otp when it is on; no
\* message is handed to the provider.
C22_CredentialFailure ==
    [][CredentialFailureStep
          => /\ response'.mail = "failed"
             /\ backend' = None
             /\ outcome'.send = NoSend
             /\ IF DEBUG
                THEN /\ response'.status = HTTP_200_OK
                     /\ response'.debug_otp # {}
                ELSE /\ response'.status = HTTP_500_INTERNAL_SERVER_ERROR
                     /\ response'.debug_otp = {}]_vars

\* with DEBUG off, a resend has just been answered 500 because the backend
\* found no usable credential
C22_Witness ==
    /\ ~DEBUG
    /\ response.op = "resend"
    /\ response.status = HTTP_500_INTERNAL_SERVER_ERROR
    /\ response.mail = "failed"
    /\ outcome.op = "send_mail"
    /\ outcome.error = "Need to authorize Gmail access"

(* ====================================================================== *)
(* The migration, one file operation at a time                            *)
(* ====================================================================== *)

\* the _migrate_credentials call of worker w has returned (nothing has been
\* done after it yet) and one of its steps had failed
MigrateReturnedFailed(w) ==
    /\ workers[w].pc = "validate"
    /\ workers[w].start # None
    /\ workers[w].step_failed

(* ------------------------------- C23 ---------------------------------- *)

\* C23: when a _migrate_credentials call one of whose steps failed has
\* returned, the pickle file holds what it held when the call was entered.
C23_RestoredOnFailure ==
    \A w \in Workers :
        MigrateReturnedFailed(w) => pickle_file = workers[w].start

\* when the backup copy of this call had completed, a failed migration
\* leaves the pickle file as it found it
C23_RestoredFromOwnSnapshot ==
    \A w \in Workers :
        (MigrateReturnedFailed(w) /\ workers[w].backed_up)
            => pickle_file = workers[w].start

(* ------------------------------- C24 ---------------------------------- *)

\* C24: once a _migrate_credentials call has written the pickle file or the
\* JSON file, its backup copy has completed and the backup file holds what
\* the pickle file held when the call was entered; the pickle file is never
\* removed.
C24_BackupBeforeWrite ==
    \A w \in Workers :
        /\ workers[w].wrote
              => /\ workers[w].backed_up
                 /\ backup_file = workers[w].start
        /\ workers[w].start # None => pickle_file # Absent

\* the writes of _save_credentials come after the backup copy, and the
\* pickle file is never removed
C24_SaveAfterBackup ==
    \A w \in Workers :
        /\ workers[w].pc \in {"migrate_pickle", "migrate_json"}
              => /\ workers[w].backed_up
                 /\ backup_file = workers[w].start
        /\ workers[w].start # None => pickle_file # Absent

(* ------------------------------- C25 ---------------------------------- *)

\* every worker has finished a load() in which it refreshed the credential
\* and no file operation failed
BothRefreshedCleanly ==
    \A w \in Workers :
        /\ workers[w].pc = "done"
        /\ workers[w].refreshed
        /\ ~workers[w].step_failed

\* C25: when two workers have each refreshed the credential in a load() of
\* their own and finished without a failing step, they hold different access
\* tokens, and each of the two files holds the token of one of them: nothing
\* makes it the same one for both files, or the newer one.
C25_UnlockedRefresh ==
    BothRefreshedCleanly
        => /\ workers["w1"].credentials.token # workers["w2"].credentials.token
           /\ pickle_file \in {workers[w].credentials : w \in Workers}
           /\ json_file \in {creds_data(workers[w].credentials) : w \in Workers}

\* both workers have finished refreshing and the pickle file and the JSON
\* file hold the access tokens of different refreshes
C25_Witness ==
    /\ BothRefreshedCleanly
    /\ Readable(pickle_file)
    /\ Readable(json_file)
    /\ pickle_file.token # json_file.token

\* both workers have finished refreshing and both files hold the token of
\* the earlier refresh: the later one is lost
C25_NewerOverwritten ==
    /\ BothRefreshedCleanly
    /\ issued = 2
    /\ pickle_file.token = NewToken(1)
    /\ json_file.token = NewToken(1)

(* ====================================================================== *)
(* Requests of two sessions                                               *)
(* ====================================================================== *)

(* ------------------------------- C26 ---------------------------------- *)

\* no two user records share a username or an address
UniqueUsers ==
    \A u \in users, v \in users :
        (u.username = v.username \/ u.email = v.email) => u = v

\* C26: whatever the order of the begin and verify requests of two sessions,
\* no two user records share a username or an address; a verify with the
\* stored, unexpired code whose create_user is rejected because the username
\* or the address is taken answers 500, leaves the user table as it is and
\* leaves both entries of its session in place.
C26_OneUserPerIdentity ==
    [][/\ UniqueUsers'
       /\ \A s \in TwoSessions, e \in Emails, c \in Codes :
             (ValidCode(s, e, c) /\ ~StoreAccepts(PendingData(s, e)) /\ VerifyStep(s, e, c))
                => /\ response'.status = HTTP_500_INTERNAL_SERVER_ERROR
                   /\ users' = users
                   /\ session' = session]_vars

\* session s2 has just been answered 500 on a verify for an address that a
\* user record already holds; its pending registration and its code are
\* still there
C26_Witness ==
    /\ response.op = "verify"
    /\ response.sid = "s2"
    /\ response.status = HTTP_500_INTERNAL_SERVER_ERROR
    /\ \E e \in Emails :
          /\ Pending("s2", e)
          /\ HasCode("s2", e)
          /\ ~Pending("s1", e)
          /\ \E u \in users : u.email = normalize_email(e)

(* ------------------ a second begin for a pending email ----------------- *)

\* the registration data a begin request carries into the session
RequestData(username, e, password, first_name, last_name) ==
    [username |-> username, email |-> e, password |-> password,
     first_name |-> first_name, last_name |-> last_name]

\* a begin that passed both look-ups and the serializer
AcceptedBegin(s, username, e, password, confirm_password, first_name, last_name) ==
    /\ response'.status # HTTP_400_BAD_REQUEST
    /\ RegisterStep(s, username, e, password, confirm_password, first_name, last_name)

\* a verify that creates a user creates the one the stored data describes
VerifyCarriesStoredData ==
    \A s \in Sessions, e \in Emails, c \in Codes :
        /\ (HasCode(s, e) /\ c # StoredOtp(s, e).code /\ VerifyStep(s, e, c))
              => (response'.status # HTTP_201_CREATED /\ users' = users)
        /\ (VerifyStep(s, e, c) /\ users' # users)
              => users' = users \cup {ExpectedUser(PendingData(s, e))}

\* C27 as stated: an accepted begin for an email that is pending in the
\* session is answered with success, stores its own data and a code other
\* than the earlier one; a verify succeeds only with the stored code and the
\* user it creates is the one the stored data describes.
C27_AsStated ==
    [][/\ \A s \in Sessions, e \in Emails, un \in Usernames, p \in Passwords,
             cp \in Passwords, fn \in FirstNames, ln \in LastNames :
             (Pending(s, e) /\ AcceptedBegin(s, un, e, p, cp, fn, ln))
                 => /\ response'.status = HTTP_200_OK
                    /\ RegistrationStored(s, e)
                    /\ (PendingData(s, e))' = RequestData(un, e, p, fn, ln)
                    /\ HasCode(s, e) => (StoredOtp(s, e))'.code # StoredOtp(s, e).code
       /\ VerifyCarriesStoredData]_vars

\* C27 (amended): an accepted begin for an email that is pending in the
\* session replaces the stored data by its own and the code entry by a
\* freshly drawn code expiring 10 minutes after the begin, whether it is
\* answered 200 or (mail failure with DEBUG off) 500; a verify succeeds only
\* with the stored code, so the earlier code no longer verifies unless the
\* draw repeated it, and the user created is the one the stored data describes.
C27_BeginReplaces ==
    [][/\ \A s \in Sessions, e \in Emails, un \in Usernames, p \in Passwords,
             cp \in Passwords, fn \in FirstNames, ln \in LastNames :
             (Pending(s, e) /\ AcceptedBegin(s, un, e, p, cp, fn, ln))
                 => /\ response'.replaced # "none"
                    /\ RegistrationStored(s, e)
                    /\ (PendingData(s, e))' = RequestData(un, e, p, fn, ln)
                    /\ DOMAIN session'[s] = DOMAIN session[s] \cup {otp_key(e)}
                    /\ (response'.status = HTTP_200_OK)
                          = (response'.mail = "sent" \/ DEBUG)
                    /\ (response'.status = HTTP_500_INTERNAL_SERVER_ERROR)
                          = (response'.mail = "failed" /\ ~DEBUG)
       /\ VerifyCarriesStoredData]_vars

\* a begin at minute 5 for an email whose registration was already pending
\* has been answered with success: the session holds one registration and
\* one code for the email, expiring at minute 15
C27_Witness ==
    /\ response.op = "register"
    /\ response.replaced = "live"
    /\ response.status = HTTP_200_OK
    /\ now = OTP_EXPIRY_MINUTES \div 2
    /\ \E s \in Sessions, e \in Emails :
          /\ response.sid = s
          /\ Pending(s, e) /\ HasCode(s, e)
          /\ PendingData(s, e).username = "bob"
          /\ fromtimestamp(StoredOtp(s, e).expiry) = now + OTP_EXPIRY_MINUTES

(* ---------------------- a resend after the expiry ---------------------- *)

\* the stored code of e has expired and the step is a resend for e
ResendAfterExpiry(s, e) ==
    /\ Pending(s, e) /\ HasCode(s, e)
    /\ now > fromtimestamp(StoredOtp(s, e).expiry)
    /\ ResendStep(s, e)

\* the last request was a resend in session s that replaced an expired code,
\* and the step is a verify for e with the stored, unexpired code
VerifyAfterLateResend(s, e, c) ==
    /\ response.op = "resend" /\ response.sid = s /\ response.replaced = "expired"
    /\ response.status # HTTP_400_BAD_REQUEST
    /\ ValidCode(s, e, c)
    /\ VerifyStep(s, e, c)

\* C28 as stated: a resend after the stored code's expiry is answered with
\* success and installs a fresh code expiring 10 minutes after the resend,
\* and a following verify with the new code succeeds and creates the user.
C28_AsStated ==
    [][\A s \in Sessions, e \in Emails :
          /\ ResendAfterExpiry(s, e)
                => /\ response'.status = HTTP_200_OK
                   /\ ResendReplaces(s, e)
          /\ \A c \in Codes :
                VerifyAfterLateResend(s, e, c)
                    => /\ response'.status = HTTP_201_CREATED
                       /\ users' = users \cup {ExpectedUser(PendingData(s, e))}]_vars

\* C28 (amended): a resend after the stored code's expiry is not turned
\* away: it installs a fresh code expiring 10 minutes after the resend and
\* leaves the registration data alone, answering 200 unless the mail fails
\* with DEBUG off (500); a following verify with the new code creates the
\* user when no user holds the pending username or address, and is
\* answered 500 without creating anything otherwise.
C28_ResendAfterExpiry ==
    [][\A s \in Sessions, e \in Emails :
          /\ ResendAfterExpiry(s, e)
                => /\ response'.replaced = "expired"
                   /\ ResendReplaces(s, e)
                   /\ now' = now
                   /\ (response'.status = HTTP_200_OK)
                         = (response'.mail = "sent" \/ DEBUG)
                   /\ (response'.status = HTTP_500_INTERNAL_SERVER_ERROR)
                         = (response'.mail = "failed" /\ ~DEBUG)
          /\ \A c \in Codes :
                VerifyAfterLateResend(s, e, c)
                    => IF StoreAccepts(PendingData(s, e))
                       THEN /\ response'.status = HTTP_201_CREATED
                            /\ users' = users \cup {ExpectedUser(PendingData(s, e))}
                       ELSE /\ response'.status = HTTP_500_INTERNAL_SERVER_ERROR
                            /\ users' = users]_vars

\* a resend that found an expired code has been answered with success: the
\* registration is still pending and its code expires 10 minutes from now
C28_Witness ==
    /\ response.op = "resend"
    /\ response.replaced = "expired"
    /\ response.status = HTTP_200_OK
    /\ \E s \in Sessions, e \in Emails :
          /\ response.sid = s
          /\ Pending(s, e) /\ HasCode(s, e)
          /\ now > OTP_EXPIRY_MINUTES
          /\ fromtimestamp(StoredOtp(s, e).expiry) = now + OTP_EXPIRY_MINUTES

(* ------------------- the mail fails during a resend -------------------- *)

\* C29: when send_mail fails during a resend, the session already holds the
\* code drawn by this resend with expiry resend time + 10 minutes in place
\* of the earlier entry, and the registration data and every other entry
\* are unchanged; this is so for the 200 answer (DEBUG on, which carries
\* the stored code) and for the 500 answer (DEBUG off).
C29_FailedResendReplaces ==
    [][\A s \in Sessions, e \in Emails :
          (response'.mail = "failed" /\ ResendStep(s, e))
              => /\ Pending(s, e)
                 /\ \E otp \in generate_otp :
                       /\ session' = [session EXCEPT ![s] =
                             Put(session[s], otp_key(e),
                                 [code |-> otp,
                                  expiry |-> timestamp(now + OTP_EXPIRY_MINUTES)])]
                       /\ response'.debug_otp = IF DEBUG THEN {otp} ELSE {}
                 /\ (Pending(s, e))' /\ (PendingData(s, e))' = PendingData(s, e)
                 /\ response'.status =
                       IF DEBUG THEN HTTP_200_OK ELSE HTTP_500_INTERNAL_SERVER_ERROR
                 /\ users' = users]_vars

\* a resend at minute 5 whose mail failed has been answered 500, and the
\* code of minute 0 has given way to one that expires at minute 15
C29_Witness ==
    /\ response.op = "resend"
    /\ response.mail = "failed"
    /\ response.status = HTTP_500_INTERNAL_SERVER_ERROR
    /\ response.replaced = "live"
    /\ now = OTP_EXPIRY_MINUTES \div 2
    /\ \E s \in Sessions, e \in Emails :
          /\ response.sid = s
          /\ Pending(s, e) /\ HasCode(s, e)
          /\ fromtimestamp(StoredOtp(s, e).expiry) = now + OTP_EXPIRY_MINUTES

(* ----------------- the credential a backend comes with ----------------- *)

\* C30: whenever the construction of the backend returns normally, the
\* backend holds a credential with an access token that is not expired;
\* whenever it raises, there is no backend; and every send runs on a backend
\* that holds such a credential, never on an absent one or on one that load
\* found invalid and could not refresh.
C30_LoadedCredentialValid ==
    [][/\ (LoadStep /\ outcome'.error = "none")
             => /\ backend' # None
                /\ backend'.credentials # None
                /\ backend'.credentials.token # Empty
                /\ ~backend'.credentials.expired
                /\ (outcome'.read = None \/ outcome'.read.expired)
                      => outcome'.endpoint_calls = 1
       /\ (LoadStep /\ outcome'.error # "none") => backend' = None
       /\ SendStep
             => /\ backend # None
                /\ backend.credentials # None
                /\ backend.credentials.token # Empty
                /\ ~backend.credentials.expired]_vars

\* messages have been handed to a backend whose construction found an
\* expired credential and refreshed it
C30_Witness ==
    /\ outcome.op = "send"
    /\ outcome.send.attempted # <<>>
    /\ backend # None
    /\ backend.credentials.token = NewToken(1)
    /\ ~backend.credentials.expired
====
